---------------------------- MODULE Spec2Model ----------------------------
(***************************************************************************)
(* A model of the demo deployment, cleanup and setup scripts of the        *)
(* repository:                                                             *)
(*   DT_  JPMC_MARKETS_AI_DEMO_PACKAGE/deploy_dual_tool_demo.py            *)
(*        (class DualToolMarketsDemo)                                      *)
(*   MD_  JPMC_MARKETS_AI_DEMO_PACKAGE/deploy_markets_ai_demo.py           *)
(*        (class MarketsAIDemoDeployment)                                  *)
(*   DC_  markets_ai_demo/scripts/cleanup_demo.py (class DemoCleanup)      *)
(*   DE_  DATA_ENGINEERING_DEMOS/setup_archived.py, config_archived.py and *)
(*        src_archived_python/utils/date_utils.py                          *)
(* The warehouse (the vendor's database service) is the environment: it    *)
(* holds the account's objects, and any statement sent to it may fail.     *)
(***************************************************************************)
EXTENDS Integers, Sequences, FiniteSets, TLC

VARIABLES
    script,     \* the entry point that is running: "none", "dual", "markets", "cleanup", "setup"
    pc,         \* its position
    ip,         \* index of the next entry of the running script's program
    argv,       \* the arguments of the run (sys.argv[1:]), each a character sequence
    level,      \* cleanup_demo.py: cleanup_level, a string (character sequence)
    mode,       \* setup_archived.py: args.mode
    answer,     \* cleanup_demo.py: what input() returned, or NoAnswer
    issued,     \* the statements sent in this run: <<index, succeeded, current database>>
    conn,       \* the connection / session object of the run: "none", "open", "closed"
    cursor,     \* the cursor object of the run: "none", "open", "closed"
    opened,     \* how many connections the run has opened
    log,        \* the messages logged in this run (their kinds)
    exit,       \* how the run ended: "none", "returned", "raised", "exit0", "exit1", "exit2"
    objs,       \* warehouse: the objects of the account, <<kind, database, schema, name>>
    rows,       \* warehouse: row count of every table
    curDb,      \* session: current database ("" when none)
    curSchema,  \* session: current schema ("" when none)
    objs0,      \* the account's objects when the run started
    prev,       \* the entry point of the previous run that completed
    runs,       \* runs started so far
    faults,     \* statements / calls the environment has made fail so far
    config,     \* DataEngDemoConfig's class attributes (process state of setup_archived.py)
    today,      \* date functions: the date datetime.now() returns, <<year, month, day>>
    padYear,    \* date functions: whether the C library's strftime pads %Y to four digits
    dres,       \* date functions: the result of the last call
    ret,        \* the value the last call returned ("none" while it runs or when it raised)
    closes,     \* how many connections have been closed
    files,      \* the working directory: file name -> content, or Missing
    settings,   \* config/settings.py: the fields of snowflake_settings
    linesep,    \* os.linesep of the platform, a character sequence
    history,    \* the runs that ended before the current one, where a sequence of runs
                \* is followed: <<entry point, mode, fully succeeded, objects at its start>>
    quality     \* validation.py: the table and check a validation is at, its results
                \* dictionary, and validate_data_quality's all_passed

vars == <<script, pc, ip, argv, level, mode, answer, issued, conn, cursor, opened, log, exit,
          objs, rows, curDb, curSchema, objs0, prev, runs, faults, config,
          today, padYear, dres, ret, closes, files, settings, linesep,
          history, quality>>

inputVars == <<script, argv, level, mode, answer>>
sessVars == <<conn, cursor, opened>>
whVars == <<objs, rows, curDb, curSchema>>
histVars == <<objs0, prev, runs>>
dateVars == <<today, padYear, dres>>
labVars == <<ret, closes, files, settings, linesep, quality>>

-----------------------------------------------------------------------------
(* Bounds of the model.                                                    *)

\* Entry points run one after the other on the same account.
MaxRuns == 2
\* Statements and calls the environment makes fail in one behaviour.
MaxFaults == 1
MaxQuarters == 4    \* largest num_quarters passed to get_quarterly_dates
MaxTicks == 1       \* midnights that may pass between two reads of the clock


-----------------------------------------------------------------------------
(* Strings that the code converts are sequences of characters, so that     *)
(* str.lower() is computed and not assumed.                                 *)

UpperCase == <<"A", "C", "D", "E", "L", "M", "N", "O", "P", "R", "S", "T", "Y", "I">>
LowerCase == <<"a", "c", "d", "e", "l", "m", "n", "o", "p", "r", "s", "t", "y", "i">>

LowerChar(c) ==
    IF \E i \in 1..Len(UpperCase) : UpperCase[i] = c
    THEN LowerCase[CHOOSE i \in 1..Len(UpperCase) : UpperCase[i] = c]
    ELSE c

\* str.lower()
Lower(s) == [i \in 1..Len(s) |-> LowerChar(s[i])]

S_complete == <<"c", "o", "m", "p", "l", "e", "t", "e">>
S_partial == <<"p", "a", "r", "t", "i", "a", "l">>
S_data_only == <<"d", "a", "t", "a", "_", "o", "n", "l", "y">>
S_yes == <<"y", "e", "s">>

\* What the operator may type as the first argument of cleanup_demo.py.
ArgValues ==
    { S_complete, S_partial, S_data_only,
      <<"P", "a", "r", "t", "i", "a", "l">>,
      <<"a", "l", "l">>,
      <<>> }

\* What the operator may answer to the confirmation prompt.
NoAnswer == <<"<", "n", "o", "n", "e", ">">>
AnswerValues ==
    { S_yes,
      <<"Y", "E", "S">>,
      <<"n", "o">>,
      <<"y", "e", "s", " ">>,
      <<>> }

-----------------------------------------------------------------------------
(* The text of a statement's VALUES list.  A value is kept as far as the   *)
(* statement's quoting depends on it: "a" stands for a run of characters   *)
(* other than the single quote, "'" for a single quote, "," for the        *)
(* punctuation between values.                                             *)

Plain == <<"a">>                   \* a text without a single quote
Possessive == <<"a", "'", "a">>    \* a text such as "Snowflake's architecture"

\* str.replace("'", "''")
RECURSIVE replace(_)
replace(v) ==
    IF v = <<>> THEN <<>>
    ELSE (IF Head(v) = "'" THEN <<"'", "'">> ELSE <<Head(v)>>) \o replace(Tail(v))

\* '{value}' in an f-string: the value as it is, between single quotes.
Quoted(v) == <<"'">> \o v \o <<"'">>

\* {value:.2f}, {number} and CURRENT_TIMESTAMP(): written without quotes.
Unquoted == <<"a">>

\* The values of a statement, separated by commas.
RECURSIVE Values(_)
Values(items) ==
    IF items = <<>> THEN <<>>
    ELSE IF Len(items) = 1 THEN items[1]
    ELSE items[1] \o <<",">> \o Values(Tail(items))

\* "ARRAY[" + ",".join(f"'{t}'" for t in values) + "]"
Array(values) ==
    <<"a", ",">> \o Values([i \in 1..Len(values) |-> Quoted(values[i])]) \o <<",">>

\* The warehouse reading a statement's text: a single quote opens a string
\* literal, the next single quote closes it unless another one follows at
\* once (a doubled quote is one quote of the text), and a closed literal is
\* followed by punctuation or by the end of the statement.
\* The reader after character c, "error" on a character it cannot accept.
ScanStep(st, c) ==
    CASE st = "between" -> IF c = "'" THEN "literal" ELSE IF c = "," THEN "between" ELSE "word"
      [] st = "word" -> IF c = "'" THEN "error" ELSE IF c = "," THEN "between" ELSE "word"
      [] st = "literal" -> IF c = "'" THEN "closed" ELSE "literal"
      [] st = "closed" -> IF c = "'" THEN "literal" ELSE IF c = "," THEN "between" ELSE "error"
      [] OTHER -> "error"

\* The reader after a whole text, read from left to right.
RECURSIVE Scan(_, _)
Scan(text, st) ==
    IF Len(text) = 0 THEN st
    ELSE IF Len(text) = 1 THEN ScanStep(st, text[1])
    ELSE LET half == Len(text) \div 2
             left == Scan(SubSeq(text, 1, half), st)
         IN IF left = "error" THEN "error" ELSE Scan(SubSeq(text, half + 1, Len(text)), left)

WellFormed(text) == Scan(text, "between") \in {"between", "word", "closed"}

-----------------------------------------------------------------------------
(* The warehouse.  An object is <<kind, database, schema, name>>; a        *)
(* statement names its verb, the kind of object, the qualifiers written in *)
(* the statement ("" when the name is left to the session's context) and   *)
(* the name.                                                               *)

Sql(verb, kind, db, schema, name) ==
    [verb |-> verb, kind |-> kind, db |-> db, schema |-> schema, name |-> name]

Database(d) == <<"DATABASE", d, "", "">>
Schema(d, s) == <<"SCHEMA", d, s, "">>
AccountLevel == {"DATABASE", "WAREHOUSE", "SHARE"}

\* The account before any script has run: only the vendor's system database.
FreshAccount == {Database("SNOWFLAKE")}

\* The object a statement's name resolves to in a session whose current
\* database and schema are cd and cs.
Target(q, cd, cs) ==
    CASE q.kind = "DATABASE" -> Database(q.name)
      [] q.kind \in {"WAREHOUSE", "SHARE"} -> <<q.kind, "", "", q.name>>
      [] q.kind = "SCHEMA" -> Schema(IF q.db = "" THEN cd ELSE q.db, q.name)
      [] OTHER -> <<q.kind, IF q.db = "" THEN cd ELSE q.db,
                    IF q.schema = "" THEN cs ELSE q.schema, q.name>>

ContainerExists(o, O) ==
    CASE o[1] \in AccountLevel -> TRUE
      [] o[1] = "SCHEMA" -> Database(o[2]) \in O
      [] OTHER -> Schema(o[2], o[3]) \in O

\* Everything a DROP of object o removes: a database takes its schemas and
\* their objects with it, a schema its objects.
Contained(o, O) ==
    CASE o[1] = "DATABASE" -> {x \in O : x[1] \notin {"WAREHOUSE", "SHARE"} /\ x[2] = o[2]}
      [] o[1] = "SCHEMA" -> {x \in O : x[1] \notin AccountLevel /\ x[2] = o[2] /\ x[3] = o[3]}
      [] OTHER -> {o} \cap O

\* The objects the multi-statement text of setup_marketplace_integration creates.
MarketplaceObjects(cd) ==
    {Schema(cd, "MARKETPLACE_DATA"), <<"VIEW", cd, "MARKETPLACE_DATA", "economic_indicators">>}

\* Whether the warehouse accepts statement q in the given state.
Valid(q, O, cd, cs) ==
    LET o == Target(q, cd, cs) IN
    CASE q.verb = "USE" -> o \in O
      [] q.verb \in {"CREATE IF NOT EXISTS", "CREATE OR REPLACE"} -> ContainerExists(o, O)
      [] q.verb = "INSERT" -> o \in O /\ WellFormed(q.text)
      [] q.verb = "SELECT" -> o \in O
      [] q.verb \in {"DROP IF EXISTS", "TRUNCATE IF EXISTS"} -> ContainerExists(o, O)
      [] q.verb = "SHOW" ->
            /\ (q.db # "" => Database(q.db) \in O)
            /\ (q.schema # "" => Schema(IF q.db = "" THEN cd ELSE q.db, q.schema) \in O)
      [] q.verb = "SCRIPT" -> Database(cd) \in O
      [] OTHER -> TRUE

TablesOf(O) == {x \in O : x[1] = "TABLE"}

\* The warehouse and session after statement q has succeeded.
Apply(q, O, R, cd, cs) ==
    LET o == Target(q, cd, cs)
        gone == Contained(o, O)
        O2 == CASE q.verb \in {"CREATE IF NOT EXISTS", "CREATE OR REPLACE"} -> O \cup {o}
                [] q.verb = "DROP IF EXISTS" -> O \ gone
                [] q.verb = "SCRIPT" -> O \cup MarketplaceObjects(cd)
                [] OTHER -> O
        R2 == [t \in TablesOf(O2) |->
                 IF t = o /\ q.verb \in {"CREATE OR REPLACE", "TRUNCATE IF EXISTS"} THEN 0
                 ELSE IF t = o /\ q.verb = "INSERT" THEN R[t] + 1
                 ELSE IF t \in DOMAIN R THEN R[t]
                 ELSE 0]
        cd2 == CASE q.verb = "USE" /\ q.kind = "DATABASE" -> q.name
                 [] q.verb = "DROP IF EXISTS" /\ Database(cd) \in gone -> ""
                 [] OTHER -> cd
        cs2 == CASE q.verb = "USE" /\ q.kind = "DATABASE" -> ""
                 [] q.verb = "USE" /\ q.kind = "SCHEMA" -> q.name
                 [] q.verb = "DROP IF EXISTS" /\ Schema(cd, cs) \in gone -> ""
                 [] OTHER -> cs
    IN [objs |-> O2, rows |-> R2, db |-> cd2, schema |-> cs2]

-----------------------------------------------------------------------------
(* The scripts as programs: the statements each method sends, in order.    *)
(* An entry names the statement, the method that sends it and the try      *)
(* block of the method that encloses it ("" when none does: an exception   *)
(* then leaves the method).                                                *)

StepOf(name, try, sqls) ==
    [i \in 1..Len(sqls) |-> [sql |-> sqls[i], step |-> name, try |-> try]]

Repeat(n, q) == [i \in 1..n |-> q]

DEMO_DB == "MARKETS_AI_DEMO"

UseDatabase(d) == Sql("USE", "DATABASE", "", "", d)
UseSchema(s) == Sql("USE", "SCHEMA", "", "", s)
\* INSERT INTO t VALUES (...)
InsertInto(t, values) ==
    [verb |-> "INSERT", kind |-> "TABLE", db |-> "", schema |-> "", name |-> t,
     text |-> Values(values)]
CountRows(kind, s, t) == Sql("SELECT", kind, "", s, t)

\* Data whose texts hold no single quote.
AllPlain(fields) == [f \in fields |-> Plain]

(* ---- deploy_dual_tool_demo.py ---------------------------------------- *)

DT_tech_companies == <<"AAPL", "MSFT", "GOOGL", "NVDA", "SNOW", "META", "TSLA">>
DT_num_quarters == 4
DT_key_companies == <<"SNOW", "NVDA", "MSFT">>
DT_reports == <<"RPT_AI_ENTERPRISE_2024", "RPT_DATA_CLOUD_2024", "RPT_SNOWFLAKE_DEEP_2024">>

DT_create_database_structure ==
    StepOf("create_database_structure", "",
        << Sql("CREATE IF NOT EXISTS", "DATABASE", "", "", DEMO_DB),
           UseDatabase(DEMO_DB),
           Sql("CREATE IF NOT EXISTS", "SCHEMA", "", "", "RAW_DATA"),
           Sql("CREATE IF NOT EXISTS", "SCHEMA", "", "", "ANALYTICS"),
           Sql("CREATE IF NOT EXISTS", "SCHEMA", "", "", "SEARCH_SERVICES") >>)

DT_create_tables_if_not_exists ==
    StepOf("create_tables", "",
        << UseSchema("RAW_DATA"),
           Sql("CREATE IF NOT EXISTS", "TABLE", "", "", "companies"),
           Sql("CREATE IF NOT EXISTS", "TABLE", "", "", "earnings_data"),
           Sql("CREATE IF NOT EXISTS", "TABLE", "", "", "earnings_call_transcripts"),
           Sql("CREATE IF NOT EXISTS", "TABLE", "", "", "research_reports") >>)

DT_create_tables ==
    StepOf("create_tables", "",
        << UseSchema("RAW_DATA"),
           Sql("CREATE OR REPLACE", "TABLE", "", "", "companies"),
           Sql("CREATE OR REPLACE", "TABLE", "", "", "earnings_data"),
           Sql("CREATE OR REPLACE", "TABLE", "", "", "earnings_call_transcripts"),
           Sql("CREATE OR REPLACE", "TABLE", "", "", "research_reports") >>)

\* self.tech_companies: (ticker, name)
DT_company_texts ==
    [i \in 1..Len(DT_tech_companies) |-> AllPlain({"ticker", "name"})]

\* VALUES ('{ticker}', '{name}', 'Technology', {market_cap})
DT_company_insert(c) ==
    InsertInto("companies", <<Quoted(c.ticker), Quoted(c.name), Quoted(Plain), Unquoted>>)

DT_load_company_data ==
    StepOf("load_company_data", "",
        <<UseSchema("RAW_DATA")>>
        \o [i \in 1..Len(DT_tech_companies) |-> DT_company_insert(DT_company_texts[i])])

\* '{ticker}', '{quarter_label}', '{earnings_date.strftime(...)}', seven
\* numbers and CURRENT_TIMESTAMP()
DT_earnings_insert ==
    InsertInto("earnings_data",
        <<Quoted(Plain), Quoted(Plain), Quoted(Plain)>> \o Repeat(8, Unquoted))

DT_generate_earnings_data ==
    StepOf("generate_earnings_data", "",
        <<UseSchema("RAW_DATA")>>
        \o Repeat(Len(DT_tech_companies) * DT_num_quarters, DT_earnings_insert))

\* key_companies with the remarks and the questions written for each: the
\* remarks speak of "{company_name}'s ... earnings call".
DT_transcript_texts ==
    [i \in 1..Len(DT_key_companies) |->
        [ticker |-> Plain, company_name |-> Plain,
         management_remarks |-> Plain \o Possessive, qa_section |-> Possessive]]

DT_full_transcript(t) ==
    t.company_name \o Plain \o t.management_remarks \o Plain \o t.qa_section

DT_transcript_insert(t) ==
    InsertInto("earnings_call_transcripts",
        << Quoted(t.ticker \o Plain), Quoted(t.ticker), Quoted(Plain), Quoted(Plain),
           Quoted(Plain), Quoted(t.company_name \o Plain), Quoted(Plain),
           Quoted(replace(t.management_remarks)), Quoted(replace(t.qa_section)),
           Quoted(replace(DT_full_transcript(t))), Unquoted >>)

DT_generate_earnings_transcripts ==
    StepOf("generate_earnings_transcripts", "",
        <<UseSchema("RAW_DATA")>>
        \o [i \in 1..Len(DT_key_companies) |-> DT_transcript_insert(DT_transcript_texts[i])])

DT_report_fields ==
    {"id", "title", "author", "firm", "tickers", "theme", "thesis", "risks",
     "market_analysis", "company_analysis", "rating"}

DT_report_texts == [i \in 1..Len(DT_reports) |-> AllPlain(DT_report_fields)]

DT_full_report(r) ==
    r.title \o r.author \o r.firm \o r.tickers \o r.thesis \o r.market_analysis
    \o r.company_analysis \o r.risks \o r.rating \o r.theme \o Plain

DT_report_insert(r) ==
    InsertInto("research_reports",
        << Quoted(r.id), Quoted(r.title), Quoted(r.author), Quoted(r.firm),
           Quoted(Plain), Quoted(Plain), Quoted(r.tickers),
           Quoted(r.theme), Quoted(replace(r.thesis)), Quoted(replace(r.risks)),
           Quoted(replace(r.market_analysis)), Quoted(replace(r.company_analysis)),
           Quoted(r.rating), Unquoted, Quoted(replace(DT_full_report(r))),
           Unquoted >>)

DT_generate_research_reports ==
    StepOf("generate_research_reports", "",
        <<UseSchema("RAW_DATA")>>
        \o [i \in 1..Len(DT_reports) |-> DT_report_insert(DT_report_texts[i])])

DT_create_semantic_views ==
    StepOf("create_semantic_views", "",
        << UseSchema("ANALYTICS"),
           Sql("CREATE OR REPLACE", "VIEW", "", "", "earnings_analysis_semantic"),
           Sql("CREATE OR REPLACE", "VIEW", "", "", "thematic_research_semantic") >>)

DT_create_search_services ==
    StepOf("create_search_services", "", <<UseSchema("SEARCH_SERVICES")>>)
    \o StepOf("create_search_services", "search",
        << Sql("CREATE OR REPLACE", "CORTEX SEARCH SERVICE", "", "", "earnings_transcripts_search"),
           Sql("CREATE OR REPLACE", "CORTEX SEARCH SERVICE", "", "", "research_reports_search") >>)

DT_validate_deployment ==
    StepOf("validate_deployment", "v1", <<CountRows("TABLE", "RAW_DATA", "companies")>>)
    \o StepOf("validate_deployment", "v2", <<CountRows("TABLE", "RAW_DATA", "earnings_data")>>)
    \o StepOf("validate_deployment", "v3",
              <<CountRows("TABLE", "RAW_DATA", "earnings_call_transcripts")>>)
    \o StepOf("validate_deployment", "v4", <<CountRows("TABLE", "RAW_DATA", "research_reports")>>)
    \o StepOf("validate_deployment", "v5",
              <<CountRows("VIEW", "ANALYTICS", "earnings_analysis_semantic")>>)
    \o StepOf("validate_deployment", "v6",
              <<CountRows("VIEW", "ANALYTICS", "thematic_research_semantic")>>)
    \o StepOf("validate_deployment", "vsearch",
        << UseSchema("SEARCH_SERVICES"),
           Sql("SHOW", "CORTEX SEARCH SERVICE", "", "", "") >>)

\* A variant of deploy() that builds the semantic views before the reports
\* are loaded.
DT_deploy_views_before_reports ==
    DT_create_database_structure \o DT_create_tables \o DT_load_company_data
    \o DT_generate_earnings_data \o DT_generate_earnings_transcripts
    \o DT_create_semantic_views \o DT_generate_research_reports
    \o DT_create_search_services \o DT_validate_deployment

\* deploy(): the methods in the order the try block calls them.
DT_deploy ==
    DT_create_database_structure \o DT_create_tables \o DT_load_company_data
    \o DT_generate_earnings_data \o DT_generate_earnings_transcripts
    \o DT_generate_research_reports \o DT_create_semantic_views
    \o DT_create_search_services \o DT_validate_deployment

(* ---- deploy_markets_ai_demo.py ---------------------------------------- *)

MD_tech_companies ==
    <<"AAPL", "MSFT", "GOOGL", "NVDA", "TSLA", "META", "SNOW", "CRM", "ORCL", "AMD">>
MD_num_quarters == 8
MD_detailed_companies == 7
MD_base_metrics ==
    {"AAPL", "MSFT", "GOOGL", "NVDA", "TSLA", "META", "SNOW", "CRM", "ORCL", "AMD"}
MD_events ==
    <<"FED_RATE_HIKE_2024_Q1", "AI_BOOM_2024", "CHINA_TRADE_TENSIONS_2024",
      "CLOUD_COMPETITION_2024", "EV_MARKET_SHIFT_2024">>
MD_reports ==
    <<"RPT_AI_ENTERPRISE_2024_Q4", "RPT_CLOUD_DATA_2024_Q3", "RPT_SNOWFLAKE_DEEP_2024">>

MD_create_database_structure ==
    StepOf("create_database_structure", "",
        << Sql("CREATE IF NOT EXISTS", "DATABASE", "", "", DEMO_DB),
           Sql("CREATE IF NOT EXISTS", "SCHEMA", DEMO_DB, "", "RAW_DATA"),
           Sql("CREATE IF NOT EXISTS", "SCHEMA", DEMO_DB, "", "ENRICHED_DATA"),
           Sql("CREATE IF NOT EXISTS", "SCHEMA", DEMO_DB, "", "ANALYTICS"),
           Sql("CREATE IF NOT EXISTS", "SCHEMA", DEMO_DB, "", "SEARCH_SERVICES"),
           UseDatabase(DEMO_DB) >>)

MD_create_tables ==
    StepOf("create_tables", "",
        << UseSchema("RAW_DATA"),
           Sql("CREATE OR REPLACE", "TABLE", "", "", "companies"),
           Sql("CREATE OR REPLACE", "TABLE", "", "", "stock_prices"),
           Sql("CREATE OR REPLACE", "TABLE", "", "", "earnings_data"),
           Sql("CREATE OR REPLACE", "TABLE", "", "", "research_reports"),
           Sql("CREATE OR REPLACE", "TABLE", "", "", "market_events") >>)

\* company_data: (ticker, name, sector, industry, market_cap, hq, founded,
\* employees, description)
MD_company_texts ==
    [i \in 1..Len(MD_tech_companies) |->
        AllPlain({"ticker", "name", "sector", "industry", "hq", "description"})]

MD_company_insert(c) ==
    InsertInto("companies",
        << Quoted(c.ticker), Quoted(c.name), Quoted(c.sector), Quoted(c.industry), Unquoted,
           Quoted(c.hq), Unquoted, Unquoted, Quoted(c.description) >>)

MD_load_company_data ==
    StepOf("load_company_data", "",
        <<UseSchema("RAW_DATA")>>
        \o [i \in 1..Len(MD_tech_companies) |-> MD_company_insert(MD_company_texts[i])])

\* for ticker in tech_companies[:7], skipping those without base metrics,
\* one INSERT per quarter
MD_earnings_tickers ==
    {i \in 1..MD_detailed_companies : MD_tech_companies[i] \in MD_base_metrics}

\* '{ticker}', '{quarter}', '{earnings_date.strftime(...)}', sixteen numbers
\* and CURRENT_TIMESTAMP()
MD_earnings_insert ==
    InsertInto("earnings_data",
        <<Quoted(Plain), Quoted(Plain), Quoted(Plain)>> \o Repeat(17, Unquoted))

MD_generate_earnings_data ==
    StepOf("generate_earnings_data", "",
        <<UseSchema("RAW_DATA")>>
        \o Repeat(Cardinality(MD_earnings_tickers) * MD_num_quarters, MD_earnings_insert))

MD_event_texts ==
    [i \in 1..Len(MD_events) |->
        [id |-> Plain, type |-> Plain, title |-> Plain, description |-> Plain,
         impact |-> Plain, sectors |-> <<Plain, Plain>>, tickers |-> <<Plain, Plain>>]]

MD_event_insert(e) ==
    InsertInto("market_events",
        << Quoted(e.id), Quoted(Plain), Quoted(e.type), Quoted(e.title),
           Quoted(e.description), Quoted(e.impact), Array(e.sectors), Array(e.tickers),
           Quoted(Plain \o e.impact \o Plain), Unquoted >>)

MD_generate_market_events ==
    StepOf("generate_market_events", "",
        <<UseSchema("RAW_DATA")>>
        \o [i \in 1..Len(MD_events) |-> MD_event_insert(MD_event_texts[i])])

\* The thesis of RPT_SNOWFLAKE_DEEP_2024 begins "Snowflake's architecture".
MD_report_texts ==
    [i \in 1..Len(MD_reports) |->
        [id |-> Plain, title |-> Plain, author |-> Plain, firm |-> Plain, type |-> Plain,
         sector |-> Plain, tickers |-> <<Plain, Plain>>, theme |-> Plain,
         thesis |-> IF MD_reports[i] = "RPT_SNOWFLAKE_DEEP_2024" THEN Possessive ELSE Plain,
         risks |-> Plain, rating |-> Plain]]

MD_full_content(r) ==
    r.title \o r.thesis \o Plain \o r.risks \o Values(r.tickers) \o r.rating \o Plain

\* Only full_content goes through replace().
MD_report_insert(r) ==
    InsertInto("research_reports",
        << Quoted(r.id), Quoted(r.title), Quoted(r.author), Quoted(r.firm),
           Quoted(Plain), Quoted(r.type), Quoted(r.sector),
           Array(r.tickers), Quoted(r.theme), Quoted(r.thesis), Quoted(r.risks),
           Unquoted, Quoted(r.rating),
           Quoted(Plain \o r.theme \o Plain),
           Quoted(replace(MD_full_content(r))), Unquoted >>)

MD_generate_research_reports ==
    StepOf("generate_research_reports", "",
        <<UseSchema("RAW_DATA")>>
        \o [i \in 1..Len(MD_reports) |-> MD_report_insert(MD_report_texts[i])])

MD_create_semantic_views ==
    StepOf("create_semantic_views", "",
        << UseSchema("ANALYTICS"),
           Sql("CREATE OR REPLACE", "VIEW", "", "", "earnings_analysis_semantic"),
           Sql("CREATE OR REPLACE", "VIEW", "", "", "thematic_research_semantic") >>)

\* One text holding two statements, sent with one execute() inside a try.
MD_setup_marketplace_integration ==
    StepOf("setup_marketplace_integration", "marketplace",
        <<Sql("SCRIPT", "SCHEMA", "", "", "MARKETPLACE_DATA")>>)

MD_create_search_services ==
    StepOf("create_search_services", "", <<UseSchema("SEARCH_SERVICES")>>)
    \o StepOf("create_search_services", "search",
        <<Sql("CREATE IF NOT EXISTS", "CORTEX SEARCH SERVICE", "", "", "research_reports_search")>>)

\* Writes the two agent files; it sends nothing to the warehouse.
MD_create_demo_agents ==
    StepOf("create_demo_agents", "",
        <<Sql("WRITE", "FILE", "", "", "snowflake_intelligence_agents")>>)

MD_validate_deployment ==
    StepOf("validate_deployment", "v1", <<CountRows("TABLE", "RAW_DATA", "companies")>>)
    \o StepOf("validate_deployment", "v2", <<CountRows("TABLE", "RAW_DATA", "earnings_data")>>)
    \o StepOf("validate_deployment", "v3", <<CountRows("TABLE", "RAW_DATA", "market_events")>>)
    \o StepOf("validate_deployment", "v4", <<CountRows("TABLE", "RAW_DATA", "research_reports")>>)
    \o StepOf("validate_deployment", "v5",
              <<CountRows("VIEW", "ANALYTICS", "earnings_analysis_semantic")>>)
    \o StepOf("validate_deployment", "v6",
              <<CountRows("VIEW", "ANALYTICS", "thematic_research_semantic")>>)

MD_deploy ==
    MD_create_database_structure \o MD_create_tables \o MD_load_company_data
    \o MD_generate_earnings_data \o MD_generate_market_events
    \o MD_generate_research_reports \o MD_create_semantic_views
    \o MD_setup_marketplace_integration \o MD_create_search_services
    \o MD_create_demo_agents \o MD_validate_deployment

(* ---- cleanup_demo.py --------------------------------------------------- *)

DropIfExists(kind, n) == Sql("DROP IF EXISTS", kind, "", "", n)

DC_cleanup_search_services ==
    StepOf("cleanup_search_services", "",
        << UseDatabase(DEMO_DB),
           UseSchema("SEARCH_SERVICES"),
           DropIfExists("CORTEX SEARCH SERVICE", "earnings_documents_search"),
           DropIfExists("CORTEX SEARCH SERVICE", "research_reports_search") >>)

DC_cleanup_semantic_views ==
    StepOf("cleanup_semantic_views", "",
        << UseSchema("ANALYTICS"),
           DropIfExists("SEMANTIC VIEW", "earnings_analysis_semantic"),
           DropIfExists("SEMANTIC VIEW", "thematic_research_semantic") >>)

DC_tables ==
    <<"market_events", "earnings_call_transcripts", "research_reports", "earnings_data",
      "companies">>

DC_cleanup_tables ==
    StepOf("cleanup_tables", "",
        <<UseSchema("RAW_DATA")>>
        \o [i \in 1..Len(DC_tables) |-> DropIfExists("TABLE", DC_tables[i])])

DC_cleanup_schemas ==
    StepOf("cleanup_schemas", "",
        << DropIfExists("SCHEMA", "SEARCH_SERVICES"),
           DropIfExists("SCHEMA", "ANALYTICS"),
           DropIfExists("SCHEMA", "RAW_DATA") >>)

DC_cleanup_database ==
    StepOf("cleanup_database", "",
        << UseDatabase("SNOWFLAKE"),
           DropIfExists("DATABASE", DEMO_DB) >>)

\* A variant of the data_only branch that drops the tables.
DC_truncate_tables_dropping ==
    StepOf("run_cleanup", "",
        << UseDatabase(DEMO_DB), UseSchema("RAW_DATA") >>
        \o [i \in 1..Len(DC_tables) |-> DropIfExists("TABLE", DC_tables[i])])

DC_truncate_tables ==
    StepOf("run_cleanup", "",
        << UseDatabase(DEMO_DB), UseSchema("RAW_DATA") >>
        \o [i \in 1..Len(DC_tables) |-> Sql("TRUNCATE IF EXISTS", "TABLE", "", "", DC_tables[i])])

\* run_cleanup(cleanup_level): what the branch of the level sends; a level
\* that is none of the three sends nothing.
DC_run_cleanup(lv) ==
    CASE lv = S_complete ->
            DC_cleanup_search_services \o DC_cleanup_semantic_views \o DC_cleanup_tables
            \o DC_cleanup_schemas \o DC_cleanup_database
      [] lv = S_partial ->
            DC_cleanup_search_services \o DC_cleanup_semantic_views \o DC_cleanup_tables
      [] lv = S_data_only -> DC_truncate_tables
      [] OTHER -> <<>>

(* ---- DATA_ENGINEERING_DEMOS: config_archived.py, setup_archived.py ----- *)

\* The class attributes of DataEngDemoConfig that the setup script and the
\* tests read.
DataEngDemoConfig ==
    [ HISTORICAL_DAYS |-> 365,
      NUM_CUSTOMERS |-> 1000,
      NUM_PRODUCTS |-> 200,
      NUM_STORES |-> 50,
      NUM_TRANSACTIONS_PER_DAY |-> 500 ]

DE_DATABASE == "DATA_ENG_DEMO"
DE_SHARE_NAME == "DATA_ENG_CUSTOMER_SHARE"
DE_schemas == <<"RAW_DATA", "STAGING", "CURATED", "ANALYTICS", "SHARED_DATA">>
DE_warehouses == <<"DATA_ENG_LOAD_WH", "DATA_ENG_XFORM_WH", "DATA_ENG_ANALYTICS_WH">>
DE_modes == {"full", "quick", "cleanup", "validate"}

\* A variant of the quick overrides that empties the customer set.
DE_quick_overrides_zero(c) ==
    [c EXCEPT !.NUM_CUSTOMERS = 0, !.NUM_PRODUCTS = 50, !.NUM_TRANSACTIONS_PER_DAY = 50]

\* main(): the overrides of --mode quick
DE_quick_overrides(c) ==
    [c EXCEPT !.NUM_CUSTOMERS = 100, !.NUM_PRODUCTS = 50, !.NUM_TRANSACTIONS_PER_DAY = 50]

DE_setup_database_and_schemas ==
    StepOf("setup_database_and_schemas", "",
        <<Sql("CREATE IF NOT EXISTS", "DATABASE", "", "", DE_DATABASE)>>
        \o [i \in 1..Len(DE_schemas) |->
              Sql("CREATE IF NOT EXISTS", "SCHEMA", DE_DATABASE, "", DE_schemas[i])])

DE_setup_warehouses ==
    StepOf("setup_warehouses", "",
        [i \in 1..Len(DE_warehouses) |->
            Sql("CREATE IF NOT EXISTS", "WAREHOUSE", "", "", DE_warehouses[i])])

\* ingestion.py
DE_setup_stages_and_formats ==
    StepOf("setup_stages_and_formats", "",
        << Sql("CREATE IF NOT EXISTS", "STAGE", DE_DATABASE, "RAW_DATA", "CSV_STAGE"),
           Sql("CREATE IF NOT EXISTS", "FILE FORMAT", DE_DATABASE, "RAW_DATA", "CSV_FORMAT"),
           Sql("CREATE IF NOT EXISTS", "STAGE", DE_DATABASE, "RAW_DATA", "JSON_STAGE"),
           Sql("CREATE IF NOT EXISTS", "FILE FORMAT", DE_DATABASE, "RAW_DATA", "JSON_FORMAT"),
           Sql("CREATE IF NOT EXISTS", "STAGE", DE_DATABASE, "RAW_DATA", "PARQUET_STAGE"),
           Sql("CREATE IF NOT EXISTS", "FILE FORMAT", DE_DATABASE, "RAW_DATA", "PARQUET_FORMAT") >>)

\* set_context(database, schema, warehouse), then the stages and formats
DE_setup_pipeline_infrastructure ==
    StepOf("setup_pipeline_infrastructure", "",
        << UseDatabase(DE_DATABASE),
           UseSchema("RAW_DATA"),
           Sql("USE", "WAREHOUSE", "", "", DE_warehouses[1]) >>)
    \o DE_setup_stages_and_formats

\* Five checks, each in a try block whose except clause passes.
DE_validate_setup ==
    StepOf("validate_setup", "database", <<Sql("SHOW", "DATABASE", "", "", DE_DATABASE)>>)
    \o StepOf("validate_setup", "schemas", <<Sql("SHOW", "SCHEMA", DE_DATABASE, "", "")>>)
    \o StepOf("validate_setup", "tables",
        << UseDatabase(DE_DATABASE),
           Sql("SHOW", "TABLE", "", "RAW_DATA", ""),
           Sql("SHOW", "TABLE", "", "CURATED", "") >>)
    \o StepOf("validate_setup", "warehouses",
        [i \in 1..Len(DE_warehouses) |-> Sql("SHOW", "WAREHOUSE", "", "", DE_warehouses[i])])
    \o StepOf("validate_setup", "share", <<Sql("SHOW", "SHARE", "", "", DE_SHARE_NAME)>>)

DE_cleanup_demo_database_only ==
    StepOf("cleanup_demo", "", <<DropIfExists("DATABASE", DE_DATABASE)>>)

DE_cleanup_demo ==
    StepOf("cleanup_demo", "",
        <<DropIfExists("DATABASE", DE_DATABASE)>>
        \o [i \in 1..Len(DE_warehouses) |-> DropIfExists("WAREHOUSE", DE_warehouses[i])]
        \o <<DropIfExists("SHARE", DE_SHARE_NAME)>>)

DE_main_always_setup(m) ==
    IF m \in DE_modes
    THEN DE_setup_database_and_schemas \o DE_setup_warehouses
         \o DE_setup_pipeline_infrastructure \o DE_validate_setup
    ELSE <<>>

\* main(): what the try block runs for each mode
DE_main(m) ==
    CASE m = "cleanup" -> DE_cleanup_demo
      [] m = "validate" -> DE_validate_setup
      [] m \in {"full", "quick"} ->
            DE_setup_database_and_schemas \o DE_setup_warehouses
            \o DE_setup_pipeline_infrastructure \o DE_validate_setup
      [] OTHER -> <<>>

-----------------------------------------------------------------------------
(* Dates.  A date is <<year, month, day>>; the arithmetic is that of       *)
(* Python's datetime (proleptic Gregorian ordinals, day 1 = 0001-01-01)    *)
(* and of dateutil's relativedelta; a formatted date is a sequence of      *)
(* characters.                                                             *)

IsLeap(y) == y % 4 = 0 /\ (y % 100 # 0 \/ y % 400 = 0)

DaysInMonth(y, m) ==
    IF m = 2 THEN (IF IsLeap(y) THEN 29 ELSE 28)
    ELSE IF m \in {4, 6, 9, 11} THEN 30 ELSE 31

DaysBeforeYear(y) ==
    LET p == y - 1 IN p * 365 + (p \div 4) - (p \div 100) + (p \div 400)

RECURSIVE DaysBeforeMonth(_, _)
DaysBeforeMonth(y, m) ==
    IF m = 1 THEN 0 ELSE DaysBeforeMonth(y, m - 1) + DaysInMonth(y, m - 1)

\* date.toordinal()
ToOrdinal(dt) == DaysBeforeYear(dt[1]) + DaysBeforeMonth(dt[1], dt[2]) + dt[3]

\* date.fromordinal(n), for n >= 1
FromOrdinal(n) ==
    LET n0 == n - 1
        n400 == n0 \div 146097
        r400 == n0 % 146097
        n100 == r400 \div 36524
        r100 == r400 % 36524
        n4 == r100 \div 1461
        r4 == r100 % 1461
        n1 == r4 \div 365
        r1 == r4 % 365
        y == n400 * 400 + 1 + n100 * 100 + n4 * 4 + n1
    IN IF n1 = 4 \/ n100 = 4 THEN <<y - 1, 12, 31>>
       ELSE LET m == CHOOSE k \in 1..12 :
                        /\ DaysBeforeMonth(y, k) <= r1
                        /\ r1 < DaysBeforeMonth(y, k) + DaysInMonth(y, k)
            IN <<y, m, r1 - DaysBeforeMonth(y, m) + 1>>

\* dt - timedelta(days = n): OverflowError when the result is before year 1
MinusTimedelta(dt, n) ==
    IF ToOrdinal(dt) - n < 1
    THEN [raised |-> TRUE, value |-> <<0, 0, 0>>]
    ELSE [raised |-> FALSE, value |-> FromOrdinal(ToOrdinal(dt) - n)]

\* dt - relativedelta(months = k): the month moves back, the day is clipped
\* to the length of the new month and is never moved forward
MinusRelativedeltaMonths(dt, k) ==
    LET years == k \div 12
        months == k % 12
        y0 == dt[1] - years
        m0 == dt[2] - months
        y == IF m0 < 1 THEN y0 - 1 ELSE y0
        m == IF m0 < 1 THEN m0 + 12 ELSE m0
        d == IF dt[3] < DaysInMonth(y, m) THEN dt[3] ELSE DaysInMonth(y, m)
    IN <<y, m, d>>

DigitChars == <<"0", "1", "2", "3", "4", "5", "6", "7", "8", "9">>

RECURSIVE Decimal(_)
Decimal(n) ==
    IF n < 10 THEN <<DigitChars[n + 1]>>
    ELSE Decimal(n \div 10) \o <<DigitChars[(n % 10) + 1]>>

RECURSIVE ZeroPad(_, _)
ZeroPad(str, w) == IF Len(str) >= w THEN str ELSE ZeroPad(<<"0">> \o str, w)

\* dt.strftime('%Y-%m-%d'): %m and %d are two digits wide; %Y is what the C
\* library prints, four digits wide when pad and as short as the year
\* otherwise
Strftime(dt, pad) ==
    (IF pad THEN ZeroPad(Decimal(dt[1]), 4) ELSE Decimal(dt[1]))
    \o <<"-">> \o ZeroPad(Decimal(dt[2]), 2)
    \o <<"-">> \o ZeroPad(Decimal(dt[3]), 2)

\* The code point of a character of a formatted date.
CharCode(c) ==
    IF c = "-" THEN 45
    ELSE 47 + (CHOOSE k \in 1..10 : DigitChars[k] = c)

\* str < str
StrLess(a, b) ==
    \E k \in 1..(Len(a) + 1) :
        /\ \A j \in 1..(k - 1) : j <= Len(b) /\ a[j] = b[j]
        /\ IF k > Len(a) THEN k <= Len(b)
           ELSE k <= Len(b) /\ CharCode(a[k]) < CharCode(b[k])

\* A variant of get_start_date that adds the days.
get_start_date_forward(now, cfg, pad) ==
    [raised |-> FALSE,
     value |-> Strftime(FromOrdinal(ToOrdinal(now) + cfg.HISTORICAL_DAYS), pad)]

\* DataEngDemoConfig.get_start_date()
get_start_date(now, cfg, pad) ==
    LET start == MinusTimedelta(now, cfg.HISTORICAL_DAYS)
    IN IF start.raised THEN [raised |-> TRUE, value |-> <<>>]
       ELSE [raised |-> FALSE, value |-> Strftime(start.value, pad)]

\* DataEngDemoConfig.get_end_date()
get_end_date(now, cfg, pad) == Strftime(now, pad)

\* get_quarterly_dates(num_quarters)
get_quarterly_dates(now, num_quarters, pad) ==
    LET quarter_ends == <<<<now[1], 3, 31>>, <<now[1], 6, 30>>, <<now[1], 9, 30>>,
                          <<now[1], 12, 31>>>>
        completed == {k \in 1..4 : ToOrdinal(quarter_ends[k]) <= ToOrdinal(now)}
        recent_quarter_end ==
            IF completed = {} THEN <<now[1] - 1, 12, 31>>
            ELSE quarter_ends[CHOOSE k \in completed : \A j \in completed : j <= k]
    IN [i \in 1..num_quarters |->
          Strftime(MinusRelativedeltaMonths(recent_quarter_end, 3 * (i - 1)), pad)]

\* The results of the calls made so far.
NoResults ==
    [ startDone |-> FALSE, startRaised |-> FALSE, start |-> <<>>, startAt |-> <<0, 0, 0>>,
      endDone |-> FALSE, end |-> <<>>, endAt |-> <<0, 0, 0>>,
      ticks |-> 0,
      quartersDone |-> FALSE, quarters |-> <<>>, num_quarters |-> 0,
      quartersAt |-> <<0, 0, 0>> ]

-----------------------------------------------------------------------------
(* CORTEX_SEARCH_JPMC: the lab's working directory and its settings.       *)

\* A file that does not exist (no content is this sequence).
Missing == <<"<missing>">>
\* The two files setup.py's create_env_file looks at.
FileNames == {".env", "env.template"}
NoFiles == [f \in FileNames |-> Missing]

\* snowflake_settings before the environment is read: the fields that
\* validate_settings and _build_connection_params look at.  None is the
\* value of an Optional field that is not set.
None == "<None>"
NoSettings ==
    [ account |-> "", user |-> "", password |-> None,
      private_key_path |-> None, private_key_passphrase |-> None, authenticator |-> None ]

\* Line endings.
\* results = {"checks_passed": 0, "checks_failed": 0, ..., "issues": []}
NewResults(table_name) ==
    [table_name |-> table_name, checks_passed |-> 0, checks_failed |-> 0,
     quality_score |-> <<0, 1>>, issues |-> <<>>]

\* No validation has been started.
NoQuality ==
    [table |-> 0, check |-> 0, results |-> NewResults(""), all_passed |-> TRUE, seen |-> <<>>]

LF == <<"\n">>
CRLF == <<"\r", "\n">>

-----------------------------------------------------------------------------
(* Running the scripts.                                                    *)

\* The program of the running entry point.
Program ==
    CASE script = "dual" -> DT_deploy
      [] script = "markets" -> MD_deploy
      [] script = "cleanup" -> DC_run_cleanup(level)
      [] script = "setup" -> DE_main(mode)
      [] OTHER -> <<>>

\* A variant of the except clause that sends the failed statement again.
AfterTry_retrying(prog, i) == i

\* The first entry after the try block that encloses entry i.
AfterTry(prog, i) ==
    LET later == {j \in (i + 1)..Len(prog) : prog[j].try # prog[i].try}
    IN IF later = {} THEN Len(prog) + 1
       ELSE CHOOSE j \in later : \A k \in later : j <= k

\* connections.toml may name a database; the session starts in it when it exists.
ConfigDatabases == {"", DEMO_DB}
SessionDb(d) == IF Database(d) \in objs THEN d ELSE ""

\* A variant of execute_sql that logs the error and goes on.
DT_execute_sql_swallowing(failed) ==
    [raises |-> FALSE, logs |-> IF failed THEN {"sql_error"} ELSE {}]

\* execute_sql of the two deploy classes: an error is logged and re-raised.
DT_execute_sql(failed) ==
    [raises |-> failed, logs |-> IF failed THEN {"sql_error"} ELSE {}]

MD_execute_sql(failed) ==
    [raises |-> failed, logs |-> IF failed THEN {"sql_error"} ELSE {}]

\* A variant of DemoCleanup.execute_sql that re-raises after the warning.
DC_execute_sql_reraising(failed) ==
    [raises |-> failed, logs |-> IF failed THEN {"sql_warning"} ELSE {}]

\* execute_sql of DemoCleanup: an error is logged as a warning and swallowed.
DC_execute_sql(failed) ==
    [raises |-> FALSE, logs |-> IF failed THEN {"sql_warning"} ELSE {}]

\* session.sql(...).collect() of the setup script: an error propagates.
DE_sql_collect(failed) ==
    [raises |-> failed, logs |-> {}]

\* The operator starts entry point s as a new process on the same account.
\* Faults are injected into the last run of a behaviour only.
RunFrom(s, max) ==
    /\ pc \in {"idle", "done"}
    /\ runs < max
    /\ faults = 0
    /\ script' = s
    /\ runs' = runs + 1
    /\ prev' = IF exit = "returned" THEN script ELSE prev
    /\ objs0' = objs
    /\ ip' = 0
    /\ issued' = <<>>
    /\ conn' = "none" /\ cursor' = "none" /\ opened' = 0
    /\ log' = {}
    /\ exit' = "none"
    /\ answer' = NoAnswer
    /\ curDb' = "" /\ curSchema' = ""
    /\ config' = DataEngDemoConfig
    /\ UNCHANGED <<objs, rows, faults, today, padYear, dres, labVars>>

\* A run among the runs of any entry point.
StartRun(s) == RunFrom(s, MaxRuns) /\ UNCHANGED history

\* self.conn = snowflake.connector.connect(...); self.cursor = self.conn.cursor()
ConnectorConnect ==
    /\ pc = "connect"
    /\ \/ \* the configuration cannot be loaded, or connect() raises
          /\ faults < MaxFaults
          /\ faults' = faults + 1
          /\ pc' = "except"
          /\ UNCHANGED <<sessVars, curDb, curSchema, ip, log>>
       \/ \* conn.cursor() raises
          /\ faults < MaxFaults
          /\ faults' = faults + 1
          /\ conn' = "open" /\ opened' = opened + 1
          /\ pc' = "except"
          /\ UNCHANGED <<cursor, curDb, curSchema, ip, log>>
       \/ \E d \in ConfigDatabases :
          /\ conn' = "open" /\ opened' = opened + 1
          /\ cursor' = "open"
          /\ curDb' = SessionDb(d) /\ curSchema' = ""
          /\ log' = log \cup {"connected"}
          /\ pc' = "run" /\ ip' = 1
          /\ UNCHANGED faults
    /\ UNCHANGED <<inputVars, issued, exit, objs, rows, histVars, config, today, padYear, dres, labVars, history>>

\* One entry of the program: the statement goes to the warehouse (through
\* execute_sql, where the class has one, given as the map from "the
\* statement failed" to what the method then does), which accepts or rejects
\* it; what an exception does is decided by the try block around the call.
ExecuteEntry(prog, execute_sql) ==
    /\ pc = "run"
    /\ ip \in 1..Len(prog)
    /\ LET e == prog[ip]
           q == e.sql
           isSql == q.verb # "WRITE"
           valid == Valid(q, objs, curDb, curSchema)
           free == q.verb = "SCRIPT"
       IN \E envOk \in BOOLEAN :
            LET ok == envOk /\ valid
                fault == ~envOk /\ valid /\ ~free
                r == IF isSql THEN execute_sql[~ok] ELSE [raises |-> ~ok, logs |-> {}]
                a == Apply(q, objs, rows, curDb, curSchema)
            IN /\ (~envOk => valid)
               /\ (fault => faults < MaxFaults)
               /\ faults' = IF fault THEN faults + 1 ELSE faults
               /\ issued' = IF isSql THEN Append(issued, <<ip, ok, curDb>>) ELSE issued
               /\ IF ok
                  THEN /\ objs' = a.objs /\ rows' = a.rows
                       /\ curDb' = a.db /\ curSchema' = a.schema
                  ELSE UNCHANGED whVars
               /\ IF ~r.raises
                  THEN /\ pc' = "run" /\ ip' = ip + 1
                       /\ log' = log \cup r.logs
                  ELSE IF e.try # ""
                  THEN /\ pc' = "run" /\ ip' = AfterTry(prog, ip)
                       /\ log' = log \cup r.logs \cup {"warning"}
                  ELSE /\ pc' = "except" /\ ip' = ip
                       /\ log' = log \cup r.logs
    /\ UNCHANGED <<inputVars, sessVars, exit, histVars, config, today, padYear, dres, labVars, history>>

\* The end of the try block: the success messages.
Completed(prog) ==
    /\ pc = "run"
    /\ ip = Len(prog) + 1
    /\ log' = log \cup {"success"}
    /\ exit' = "returned"
    /\ pc' = "finally"
    /\ UNCHANGED <<inputVars, ip, issued, sessVars, whVars, histVars, faults, config,
                   today, padYear, dres, labVars, history>>

\* except Exception as e: logger.error(...); raise
ExceptReraise ==
    /\ pc = "except"
    /\ log' = log \cup {"error"}
    /\ exit' = "raised"
    /\ pc' = "finally"
    /\ UNCHANGED <<inputVars, ip, issued, sessVars, whVars, histVars, faults, config,
                   today, padYear, dres, labVars, history>>

\* finally: if self.cursor: self.cursor.close(); if self.conn: self.conn.close()
\* (the connector's close() methods do not raise)
FinallyClose(closeCursor) ==
    /\ pc = "finally"
    /\ cursor' = IF closeCursor /\ cursor = "open" THEN "closed" ELSE cursor
    /\ conn' = IF conn = "open" THEN "closed" ELSE conn
    /\ log' = IF conn = "open" THEN log \cup {"closed"} ELSE log
    /\ pc' = "done"
    /\ UNCHANGED <<inputVars, ip, issued, opened, exit, whVars, histVars, faults, config,
                   today, padYear, dres, labVars, history>>

(* ---- deploy_dual_tool_demo.py: DualToolMarketsDemo.deploy ------------- *)

StartDual ==
    /\ StartRun("dual")
    /\ argv' = <<>> /\ level' = <<>> /\ mode' = ""
    /\ pc' = "connect"

DT_connect == script = "dual" /\ ConnectorConnect

DT_step ==
    /\ script = "dual"
    /\ ExecuteEntry(DT_deploy, [failed \in BOOLEAN |-> DT_execute_sql(failed)])

DT_complete == script = "dual" /\ Completed(DT_deploy)

DT_except == script = "dual" /\ ExceptReraise

DT_finally == script = "dual" /\ FinallyClose(TRUE)

(* ---- deploy_markets_ai_demo.py: MarketsAIDemoDeployment.deploy --------- *)

StartMarkets ==
    /\ StartRun("markets")
    /\ argv' = <<>> /\ level' = <<>> /\ mode' = ""
    /\ pc' = "connect"

MD_connect == script = "markets" /\ ConnectorConnect

MD_step ==
    /\ script = "markets"
    /\ ExecuteEntry(MD_deploy, [failed \in BOOLEAN |-> MD_execute_sql(failed)])

MD_complete == script = "markets" /\ Completed(MD_deploy)

MD_except == script = "markets" /\ ExceptReraise

MD_finally == script = "markets" /\ FinallyClose(TRUE)

\* deploy(): the try block of either script has run to its end.  The markets
\* script does not get there: the INSERT of its third report always raises.
deploy_complete == IF script = "markets" THEN MD_complete ELSE DT_complete

(* ---- cleanup_demo.py: main and DemoCleanup.run_cleanup ----------------- *)

DC_levels == {S_complete, S_partial, S_data_only}

\* A variant of the level check that lets every argument through.
DC_valid_level_any(lv) == TRUE

\* level in ["complete", "partial", "data_only"]
DC_valid_level(lv) == lv \in DC_levels

\* confirm.lower() != "yes" cancels
DC_confirmed(a) == Lower(a) = S_yes

\* argv holds sys.argv[1:]
StartCleanup ==
    /\ StartRun("cleanup")
    /\ argv' \in {<<>>} \cup {<<a>> : a \in ArgValues}
    /\ level' = S_complete
    /\ mode' = ""
    /\ pc' = "main"

\* main(), up to the banner
DC_main ==
    /\ script = "cleanup" /\ pc = "main"
    /\ IF Len(argv) > 0
       THEN LET lv == Lower(argv[1])
            IN IF DC_valid_level(lv)
               THEN /\ level' = lv
                    /\ pc' = IF lv = S_complete THEN "confirm" ELSE "connect"
                    /\ UNCHANGED exit
               ELSE /\ exit' = "exit1"
                    /\ pc' = "done"
                    /\ UNCHANGED level
       ELSE /\ pc' = "confirm"
            /\ UNCHANGED <<level, exit>>
    /\ UNCHANGED <<script, argv, mode, answer, ip, issued, sessVars, log, whVars, histVars,
                   faults, config, today, padYear, dres, labVars, history>>

\* main(), the confirmation of a complete cleanup; input() raises EOFError
\* when standard input is at its end
DC_confirm ==
    /\ script = "cleanup" /\ pc = "confirm"
    /\ \E a \in AnswerValues \cup {NoAnswer} :
        /\ answer' = a
        /\ IF a = NoAnswer
           THEN exit' = "raised" /\ pc' = "done"
           ELSE IF ~DC_confirmed(a)
           THEN exit' = "exit0" /\ pc' = "done"
           ELSE pc' = "connect" /\ UNCHANGED exit
    /\ UNCHANGED <<script, argv, level, mode, ip, issued, sessVars, log, whVars, histVars,
                   faults, config, today, padYear, dres, labVars, history>>

DC_connect == script = "cleanup" /\ ConnectorConnect

DC_step ==
    /\ script = "cleanup"
    /\ ExecuteEntry(DC_run_cleanup(level), [failed \in BOOLEAN |-> DC_execute_sql(failed)])

DC_complete == script = "cleanup" /\ Completed(DC_run_cleanup(level))

DC_except == script = "cleanup" /\ ExceptReraise

\* finally: if self.conn: self.conn.close()
DC_finally == script = "cleanup" /\ FinallyClose(FALSE)

(* ---- setup_archived.py: main -------------------------------------------- *)

\* argparse rejects a --mode outside its choices with exit status 2.
StartSetup ==
    /\ StartRun("setup")
    /\ argv' = <<>> /\ level' = <<>>
    /\ mode' \in DE_modes \cup {"other"}
    /\ pc' = "main"

DE_parse_args ==
    /\ script = "setup" /\ pc = "main"
    /\ IF mode \in DE_modes
       THEN pc' = "session" /\ UNCHANGED exit
       ELSE pc' = "done" /\ exit' = "exit2"
    /\ UNCHANGED <<inputVars, ip, issued, sessVars, log, whVars, histVars, faults, config,
                   today, padYear, dres, labVars, history>>

\* session = get_snowpark_session(...), before main's try block.  The
\* function creates the session and then asks it for the account, the
\* database and the schema; an exception at either place is re-raised.
DE_get_snowpark_session ==
    /\ script = "setup" /\ pc = "session"
    /\ \/ \* Session.builder...create() raises
          /\ faults < MaxFaults
          /\ faults' = faults + 1
          /\ exit' = "raised" /\ pc' = "done"
          /\ UNCHANGED <<sessVars, curDb, curSchema, ip, log>>
       \/ \* create() returns, a get_current_...() call raises
          /\ faults < MaxFaults
          /\ faults' = faults + 1
          /\ conn' = "open" /\ opened' = opened + 1
          /\ exit' = "raised" /\ pc' = "done"
          /\ UNCHANGED <<cursor, curDb, curSchema, ip, log>>
       \/ /\ conn' = "open" /\ opened' = opened + 1
          /\ curDb' = "" /\ curSchema' = ""
          /\ log' = log \cup {"connected"}
          /\ pc' = "dispatch"
          /\ UNCHANGED <<cursor, faults, exit, ip>>
    /\ UNCHANGED <<inputVars, issued, objs, rows, histVars, config, today, padYear, dres, labVars, history>>

\* the mode branch of main's try block, up to its first statement
DE_main_dispatch ==
    /\ script = "setup" /\ pc = "dispatch"
    /\ config' = IF mode = "quick" THEN DE_quick_overrides(config) ELSE config
    /\ pc' = "run" /\ ip' = 1
    /\ UNCHANGED <<inputVars, issued, sessVars, log, exit, whVars, histVars, faults,
                   today, padYear, dres, labVars, history>>

DE_step ==
    /\ script = "setup"
    /\ ExecuteEntry(DE_main(mode), [failed \in BOOLEAN |-> DE_sql_collect(failed)])

DE_complete == script = "setup" /\ Completed(DE_main(mode))

DE_except == script = "setup" /\ ExceptReraise

\* finally: session.close()
DE_finally == script = "setup" /\ FinallyClose(FALSE)

Init ==
    /\ script = "none" /\ pc = "idle" /\ ip = 0
    /\ argv = <<>> /\ level = <<>> /\ mode = "" /\ answer = NoAnswer
    /\ issued = <<>>
    /\ conn = "none" /\ cursor = "none" /\ opened = 0
    /\ log = {} /\ exit = "none"
    /\ objs = FreshAccount
    /\ rows = [t \in {} |-> 0]
    /\ curDb = "" /\ curSchema = ""
    /\ objs0 = FreshAccount /\ prev = "none" /\ runs = 0 /\ faults = 0
    /\ config = DataEngDemoConfig
    /\ today = <<2024, 1, 1>> /\ padYear = TRUE /\ dres = NoResults
    /\ ret = "none" /\ closes = 0 /\ files = NoFiles /\ settings = NoSettings
    /\ linesep = LF /\ history = <<>> /\ quality = NoQuality

Next ==
    \/ StartDual \/ DT_connect \/ DT_step \/ DT_except \/ DT_finally
    \/ StartMarkets \/ MD_connect \/ MD_step \/ MD_except \/ MD_finally
    \/ deploy_complete
    \/ StartCleanup \/ DC_main \/ DC_confirm \/ DC_connect \/ DC_step \/ DC_complete
    \/ DC_except \/ DC_finally
    \/ StartSetup \/ DE_parse_args \/ DE_get_snowpark_session \/ DE_main_dispatch
    \/ DE_step \/ DE_complete \/ DE_except \/ DE_finally

Spec == Init /\ [][Next]_vars

-----------------------------------------------------------------------------
(* Properties of the scripts.                                              *)

Failed(i) == ~issued[i][2]
AllSucceeded == \A i \in 1..Len(issued) : issued[i][2]
StatementOf(i) == Program[issued[i][1]].sql

DeployOf(s) == IF s = "dual" THEN DT_deploy ELSE IF s = "markets" THEN MD_deploy ELSE <<>>

\* The schema a deploy's session is in when it sends entry i.
SchemaAt(prog, i) ==
    LET us == {j \in 1..(i - 1) : prog[j].sql.verb = "USE" /\ prog[j].sql.kind = "SCHEMA"}
    IN IF us = {} THEN ""
       ELSE prog[CHOOSE j \in us : \A k \in us : k <= j].sql.name

\* The objects of the given kinds that the statements of a deploy create,
\* and the tables it inserts into.
CreatedBy(prog, kinds) ==
    { <<prog[i].sql.kind, DEMO_DB, SchemaAt(prog, i), prog[i].sql.name>> :
        i \in {j \in 1..Len(prog) :
                 /\ prog[j].sql.verb \in {"CREATE IF NOT EXISTS", "CREATE OR REPLACE"}
                 /\ prog[j].sql.kind \in kinds} }

PopulatedBy(prog) ==
    { <<"TABLE", DEMO_DB, SchemaAt(prog, i), prog[i].sql.name>> :
        i \in {j \in 1..Len(prog) : prog[j].sql.verb = "INSERT"} }

\* C1: every entry point opens at most one connection per run, and a
\* connection that was opened is closed when the entry point has returned
\* or raised.
C1_OneConnectionAlwaysClosed ==
    /\ opened <= 1
    /\ (pc = "done" => conn # "open")

\* C2: in a deploy, a statement of a non-optional step that fails is logged
\* and ends the run: it is the last statement issued, the success message is
\* not logged, and deploy() raises.
C2_FatalErrorAborts ==
    script \in {"dual", "markets"} =>
        \A i \in 1..Len(issued) :
            (Failed(i) /\ Program[issued[i][1]].try = "") =>
                /\ i = Len(issued)
                /\ ip = issued[i][1]
                /\ "sql_error" \in log
                /\ "success" \notin log
                /\ pc \in {"except", "finally", "done"}
                /\ (pc \in {"finally", "done"} => exit = "raised" /\ "error" \in log)

C2_Witness ==
    /\ script = "markets" /\ pc = "done" /\ exit = "raised"
    /\ Len(issued) > 10
    /\ Failed(Len(issued))
    /\ MD_deploy[issued[Len(issued)][1]].try = ""
    /\ Len(issued) < Len(MD_deploy) - 10

\* C3: in a cleanup, a failing statement is swallowed with a warning: the
\* statements of the level are issued one after the other in program order
\* whichever of them fail, and once connected run_cleanup returns without
\* raising, having issued them all.
C3_BestEffortCleanup ==
    script = "cleanup" =>
        /\ \A i \in 1..Len(issued) : issued[i][1] = i
        /\ (pc = "run" => ip = Len(issued) + 1)
        /\ ((\E i \in 1..Len(issued) : Failed(i)) => "sql_warning" \in log)
        /\ ("connected" \in log => pc # "except")
        /\ (("connected" \in log /\ pc \in {"finally", "done"}) =>
                /\ Len(issued) = Len(DC_run_cleanup(level))
                /\ exit = "returned")

C3_Witness ==
    /\ script = "cleanup" /\ pc = "done" /\ exit = "returned"
    /\ level = S_complete
    /\ Database(DEMO_DB) \in objs0
    /\ Cardinality({i \in 1..Len(issued) : Failed(i)}) >= 2
    /\ Failed(1)
    /\ ~Failed(Len(issued))

\* The spellings of "yes" that differ in case only.
YesAnyCase == {<<a, b, c>> : a \in {"y", "Y"}, b \in {"e", "E"}, c \in {"s", "S"}}

\* The run has got past main's reading of its argument.
ArgumentRead == script = "cleanup" /\ pc # "main"
Connecting == opened > 0 \/ Len(issued) > 0 \/ pc \in {"connect", "run", "except", "finally"}

\* C4 as stated: an argument other than complete, partial or data_only exits
\* with status 1 before any connection is opened; a complete cleanup connects
\* only after an answer that is "yes" in some case, any other answer exits
\* with status 0; partial and data_only are not prompted.
C4_ArgumentAsWritten ==
    (ArgumentRead /\ Len(argv) > 0 /\ argv[1] \notin DC_levels) =>
        (pc = "done" /\ exit = "exit1" /\ opened = 0 /\ issued = <<>>)

\* C4, amended: an argument whose lower-case form is other than complete,
\* partial or data_only exits with status 1 before any connection is opened;
\* a complete cleanup (asked for in any case, or by default) connects and
\* issues statements only after an answer that is "yes" in some case, and
\* any other answer exits with status 0 with nothing opened; partial and
\* data_only (in any case) go on to connect without a prompt.
C4_NothingWithoutValidRequest ==
    ArgumentRead =>
        /\ (Len(argv) > 0 /\ Lower(argv[1]) \notin DC_levels) =>
                (pc = "done" /\ exit = "exit1" /\ opened = 0 /\ issued = <<>>)
        /\ (Len(argv) = 0 \/ Lower(argv[1]) = S_complete) =>
                /\ level = S_complete
                /\ (Connecting => answer \in YesAnyCase)
                /\ ((pc # "confirm" /\ answer # NoAnswer /\ answer \notin YesAnyCase) =>
                        (pc = "done" /\ exit = "exit0" /\ opened = 0 /\ issued = <<>>))
        /\ (Len(argv) > 0 /\ Lower(argv[1]) \in {S_partial, S_data_only}) =>
                /\ level = Lower(argv[1])
                /\ answer = NoAnswer
                /\ pc # "confirm"
                /\ exit \notin {"exit0", "exit1"}

C4_Witness ==
    /\ script = "cleanup" /\ pc = "done"
    /\ argv = <<>>
    /\ answer = <<"Y", "E", "S">>
    /\ opened = 1 /\ Len(issued) = Len(DC_run_cleanup(S_complete))

\* C5: after a deploy by either script, a partial cleanup whose statements
\* all succeed leaves none of the tables and search services that the deploy
\* created, and leaves the database and its schemas.
C5_PartialRemovesDeployedObjects ==
    ( /\ script = "cleanup" /\ level = S_partial
      /\ pc = "done" /\ exit = "returned" /\ AllSucceeded
      /\ prev \in {"dual", "markets"} ) =>
        /\ CreatedBy(DeployOf(prev), {"TABLE", "CORTEX SEARCH SERVICE"}) \cap objs = {}
        /\ Database(DEMO_DB) \in objs
        /\ \A o \in objs0 : o[1] = "SCHEMA" => o \in objs

\* C6: data_only issues USE and TRUNCATE TABLE IF EXISTS statements only;
\* when they all succeed after a deploy, every table the deploy inserted
\* into is empty and the account holds the objects it held before; partial
\* issues no DROP SCHEMA and no DROP DATABASE.
C6_DataOnlyKeepsObjects ==
    script = "cleanup" =>
        /\ level = S_data_only =>
            /\ \A i \in 1..Len(issued) :
                    StatementOf(i).verb \in {"USE", "TRUNCATE IF EXISTS"}
            /\ (pc = "done" /\ exit = "returned" /\ AllSucceeded) =>
                    /\ objs = objs0
                    /\ \A t \in PopulatedBy(DeployOf(prev)) : t \in objs /\ rows[t] = 0
                    /\ \A t \in PopulatedBy(DT_deploy) \cup PopulatedBy(MD_deploy) :
                            t \in objs => rows[t] = 0
        /\ level = S_partial =>
            \A i \in 1..Len(issued) :
                ~(StatementOf(i).verb = "DROP IF EXISTS"
                  /\ StatementOf(i).kind \in {"SCHEMA", "DATABASE"})

C6_Witness ==
    /\ script = "cleanup" /\ level = S_data_only
    /\ pc = "done" /\ exit = "returned" /\ AllSucceeded
    /\ prev = "dual"
    /\ Len(issued) = Len(DC_truncate_tables)
    /\ \E t \in TablesOf(objs) : rows[t] = 0 /\ t \in PopulatedBy(DT_deploy)

\* The steps of a complete cleanup, first to last.
DC_step_order ==
    <<"cleanup_search_services", "cleanup_semantic_views", "cleanup_tables",
      "cleanup_schemas", "cleanup_database">>
StepRank(name) == CHOOSE k \in 1..Len(DC_step_order) : DC_step_order[k] = name
IsDropDatabase(q) == q.verb = "DROP IF EXISTS" /\ q.kind = "DATABASE" /\ q.name = DEMO_DB

\* C7: a complete cleanup issues its statements step by step in the order
\* search services, semantic views, tables, schemas, database; DROP DATABASE
\* MARKETS_AI_DEMO is its last statement and goes out in a session that is
\* no longer in that database; when every statement has succeeded the
\* database and everything in it are gone.
C7_CompleteCleanupOrder ==
    (script = "cleanup" /\ level = S_complete) =>
        /\ \A i, j \in 1..Len(issued) :
                i < j => StepRank(Program[issued[i][1]].step)
                            <= StepRank(Program[issued[j][1]].step)
        /\ \A i \in 1..Len(issued) :
                IsDropDatabase(StatementOf(i)) =>
                    /\ issued[i][1] = Len(Program)
                    /\ issued[i][3] # DEMO_DB
        /\ (pc = "done" /\ exit = "returned" /\ AllSucceeded) =>
                \A o \in objs : o[1] \in AccountLevel \/ o[2] # DEMO_DB
        /\ (pc = "done" /\ exit = "returned" /\ AllSucceeded) => Database(DEMO_DB) \notin objs

\* C8: the configured volumes are positive and under their ceilings in
\* every state, before and after the overrides of --mode quick.
C8_VolumesWithinCeilings ==
    /\ 0 < config.NUM_CUSTOMERS /\ config.NUM_CUSTOMERS <= 10000
    /\ 0 < config.NUM_PRODUCTS /\ config.NUM_PRODUCTS <= 1000
    /\ config.NUM_STORES <= 100
    /\ config.HISTORICAL_DAYS <= 730

C8_Witness ==
    /\ script = "setup" /\ mode = "quick" /\ pc = "done" /\ exit = "returned"
    /\ config = DE_quick_overrides(DataEngDemoConfig)
    /\ config # DataEngDemoConfig

-----------------------------------------------------------------------------
(* The modes of the data-engineering setup script.                         *)

\* The place of an entry of the setup program in the order database,
\* schemas, warehouses, stages and file formats (with the USE statements
\* that precede them), validation.
DE_rank(e) ==
    CASE e.step = "validate_setup" -> 5
      [] e.step = "setup_database_and_schemas" /\ e.sql.kind = "DATABASE" -> 1
      [] e.step = "setup_database_and_schemas" /\ e.sql.kind = "SCHEMA" -> 2
      [] e.step = "setup_warehouses" -> 3
      [] OTHER -> 4

IsCreate(q) == q.verb \in {"CREATE IF NOT EXISTS", "CREATE OR REPLACE"}

\* The objects modes full and quick create.
DE_infrastructure ==
    {Database(DE_DATABASE)}
    \cup {Schema(DE_DATABASE, DE_schemas[i]) : i \in 1..Len(DE_schemas)}
    \cup {<<"WAREHOUSE", "", "", DE_warehouses[i]>> : i \in 1..Len(DE_warehouses)}
    \cup {<<k[1], DE_DATABASE, "RAW_DATA", k[2]>> :
            k \in {<<"STAGE", "CSV_STAGE">>, <<"FILE FORMAT", "CSV_FORMAT">>,
                   <<"STAGE", "JSON_STAGE">>, <<"FILE FORMAT", "JSON_FORMAT">>,
                   <<"STAGE", "PARQUET_STAGE">>, <<"FILE FORMAT", "PARQUET_FORMAT">>}}

\* C15: the setup script does only what its mode says.  Mode validate sends
\* only SHOW and USE statements, leaves the account's objects as they were and
\* never raises once a check has been sent; mode cleanup sends only DROP IF
\* EXISTS statements and leaves no object that was not there before; modes
\* full and quick send their statements in the order database, schemas,
\* warehouses, stages and file formats, validation, the first validation
\* statement coming after all fifteen objects have been created.
C15_ModeDispatch ==
    script = "setup" =>
        /\ mode = "validate" =>
              /\ \A i \in 1..Len(issued) : StatementOf(i).verb \in {"SHOW", "USE"}
              /\ objs = objs0
              /\ Len(issued) > 0 => pc # "except" /\ exit # "raised"
        /\ mode = "cleanup" =>
              /\ \A i \in 1..Len(issued) : StatementOf(i).verb = "DROP IF EXISTS"
              /\ objs \subseteq objs0
        /\ mode \in {"full", "quick"} =>
              /\ \A i, j \in 1..Len(issued) :
                    i < j => DE_rank(Program[issued[i][1]]) <= DE_rank(Program[issued[j][1]])
              /\ \A i \in 1..Len(issued) :
                    Program[issued[i][1]].step = "validate_setup" =>
                        /\ Cardinality({j \in 1..(i - 1) :
                                          IsCreate(StatementOf(j)) /\ ~Failed(j)}) = 15
                        /\ DE_infrastructure \subseteq objs
              /\ \A i \in 1..Len(issued) :
                    StatementOf(i).verb \notin {"DROP IF EXISTS", "TRUNCATE IF EXISTS", "INSERT"}

\* A validation that followed a completed setup: one of its checks failed, it
\* returned all the same and the objects of the setup are still there.
C15_Witness ==
    /\ script = "setup" /\ mode = "validate"
    /\ pc = "done" /\ exit = "returned"
    /\ ~AllSucceeded
    /\ prev = "setup" /\ DE_infrastructure \subseteq objs /\ objs = objs0

-----------------------------------------------------------------------------
(* The setup script run again and again on one account, the runs that      *)
(* ended being remembered.                                                 *)

\* Runs of the setup script in one behaviour.
MaxSetupRuns == 3

\* What is remembered of the run that has ended.
EndedRun ==
    [ script |-> script, mode |-> mode,
      ok |-> exit = "returned" /\ \A i \in 1..Len(issued) : issued[i][2],
      objs0 |-> objs0 ]

\* python setup_archived.py --mode ..., after the previous run has ended
StartSetupAgain ==
    /\ RunFrom("setup", MaxSetupRuns)
    /\ history' = IF script = "none" THEN history ELSE Append(history, EndedRun)
    /\ argv' = <<>> /\ level' = <<>>
    /\ mode' \in DE_modes
    /\ pc' = "main"

NextSetup ==
    \/ StartSetupAgain \/ DE_parse_args \/ DE_get_snowpark_session \/ DE_main_dispatch
    \/ DE_step \/ DE_complete \/ DE_except \/ DE_finally

SpecSetup == Init /\ [][NextSetup]_vars

\* The demo objects of an account: the database DATA_ENG_DEMO with all it
\* holds, the three warehouses and the share.
DE_demo_objects(O) ==
    {o \in O : \/ o[2] = DE_DATABASE
               \/ o[1] = "WAREHOUSE" /\ \E i \in 1..Len(DE_warehouses) : o[4] = DE_warehouses[i]
               \/ o[1] = "SHARE" /\ o[4] = DE_SHARE_NAME}

\* The run before the last was a fully successful --mode full on an account
\* without demo objects.
FullThenCleanup(h, n) ==
    /\ n >= 1 /\ n <= Len(h)
    /\ h[n].script = "setup" /\ h[n].mode = "full" /\ h[n].ok
    /\ DE_demo_objects(h[n].objs0) = {}

\* C16: a cleanup that follows a fully successful --mode full on an account
\* without demo objects leaves, when its statements have succeeded, no demo
\* object; and a cleanup run again after that one has no statement rejected,
\* sends all its statements and returns unless the environment makes a call
\* fail, and leaves the account as it found it.
C16_CleanupRemovesAll ==
    (script = "setup" /\ mode = "cleanup") =>
        /\ (FullThenCleanup(history, Len(history))
            /\ pc = "done" /\ exit = "returned" /\ AllSucceeded)
              => /\ DE_demo_objects(objs) = {}
                 /\ DE_infrastructure \subseteq objs0
        /\ (/\ FullThenCleanup(history, Len(history) - 1)
            /\ history[Len(history)].script = "setup"
            /\ history[Len(history)].mode = "cleanup"
            /\ history[Len(history)].ok)
              => /\ DE_demo_objects(objs0) = {}
                 /\ objs = objs0
                 /\ (pc = "run" /\ ip \in 1..Len(Program))
                        => Valid(Program[ip].sql, objs, curDb, curSchema)
                 /\ (pc = "done" /\ faults = 0)
                        => exit = "returned" /\ Len(issued) = Len(DE_cleanup_demo)

\* Full, cleanup, cleanup: the second cleanup has returned, all five of its
\* statements having succeeded.
C16_Witness ==
    /\ script = "setup" /\ mode = "cleanup"
    /\ pc = "done" /\ exit = "returned" /\ AllSucceeded
    /\ Len(issued) = Len(DE_cleanup_demo)
    /\ Len(history) = 2
    /\ FullThenCleanup(history, 1)
    /\ history[2].mode = "cleanup" /\ history[2].ok
    /\ DE_infrastructure \subseteq history[2].objs0
    /\ objs = FreshAccount

-----------------------------------------------------------------------------
(* The deploy scripts run again and again on one account, the runs that    *)
(* ended being remembered.                                                 *)

\* Runs of the deploy scripts in one behaviour.
MaxDeployRuns == 3

\* python deploy_dual_tool_demo.py or python deploy_markets_ai_demo.py, after
\* the previous run has ended
StartDeployAgain ==
    /\ \E s \in {"dual", "markets"} : RunFrom(s, MaxDeployRuns)
    /\ history' = IF script = "none" THEN history ELSE Append(history, EndedRun)
    /\ argv' = <<>> /\ level' = <<>> /\ mode' = ""
    /\ pc' = "connect"

NextDeploy ==
    \/ StartDeployAgain
    \/ DT_connect \/ DT_step \/ DT_except \/ DT_finally
    \/ MD_connect \/ MD_step \/ MD_except \/ MD_finally
    \/ deploy_complete

SpecDeploy == Init /\ [][NextDeploy]_vars

\* The rows one run of a deploy inserts into table t.
RowsOfOneRun(prog, t) ==
    Cardinality({i \in 1..Len(prog) :
                    /\ prog[i].sql.verb = "INSERT"
                    /\ <<"TABLE", DEMO_DB, SchemaAt(prog, i), prog[i].sql.name>> = t})

\* The runs at the end of the history that are successful runs of script s.
RECURSIVE SameBefore(_, _, _)
SameBefore(h, n, s) ==
    IF n = 0 \/ h[n].script # s \/ h[n].mode # "" \/ ~h[n].ok THEN 0
    ELSE 1 + SameBefore(h, n - 1, s)

\* The entries of create_tables have all been sent and have all succeeded.
TablesReplaced ==
    LET last == CHOOSE i \in 1..Len(Program) :
                    /\ Program[i].step = "create_tables"
                    /\ \A j \in 1..Len(Program) : Program[j].step = "create_tables" => j <= i
    IN /\ \E k \in 1..Len(issued) : issued[k][1] = last
       /\ \A k \in 1..Len(issued) : issued[k][1] <= last => issued[k][2]

\* C18: when a deploy has returned, be it the first or the k-th in a row of
\* successful runs of the same script, every table of the deploy holds the
\* rows of one run and no more; and in any run, whatever the runs before it
\* left behind, a table holds at most the rows of one run once create_tables
\* has gone through.
C18_RerunDoesNotAccumulate ==
    /\ (script \in {"dual", "markets"} /\ pc = "done" /\ exit = "returned") =>
            \A t \in CreatedBy(Program, {"TABLE"}) :
                /\ t \in objs
                /\ rows[t] = RowsOfOneRun(Program, t)
    /\ (script \in {"dual", "markets"} /\ TablesReplaced) =>
            \A t \in CreatedBy(Program, {"TABLE"}) \cap objs :
                rows[t] <= RowsOfOneRun(Program, t)

\* The third successful run in a row of the dual-tool deploy has returned: the
\* companies table holds seven rows, before this run and after it.
C18_Witness ==
    /\ script = "dual" /\ pc = "done" /\ exit = "returned"
    /\ SameBefore(history, Len(history), "dual") = 2
    /\ rows[<<"TABLE", DEMO_DB, "RAW_DATA", "companies">>] = 7
    /\ rows[<<"TABLE", DEMO_DB, "RAW_DATA", "earnings_data">>] = 28
    /\ <<"TABLE", DEMO_DB, "RAW_DATA", "companies">> \in objs0

\* The run has sent a statement of validate_deployment.
ReachedValidation ==
    \E k \in 1..Len(issued) : Program[issued[k][1]].step = "validate_deployment"

\* C19: every INSERT a deploy script sends is a well-formed statement, the
\* texts between its single quotes holding no single quote that is not
\* doubled; and a deploy that has met no failure of its environment has
\* reached validate_deployment and returned.
C19_InsertsWellFormed ==
    script \in {"dual", "markets"} =>
        /\ \A k \in 1..Len(issued) :
                StatementOf(k).verb = "INSERT" => WellFormed(StatementOf(k).text)
        /\ (pc = "done" /\ faults = 0) => (ReachedValidation /\ exit = "returned")

\* The entries of a program that create an object of one of the kinds.
Creates(prog, kinds) ==
    {i \in 1..Len(prog) :
        /\ prog[i].sql.verb \in {"CREATE IF NOT EXISTS", "CREATE OR REPLACE"}
        /\ prog[i].sql.kind \in kinds}

Inserts(prog) == {i \in 1..Len(prog) : prog[i].sql.verb = "INSERT"}

\* The order of a deploy as it is written.
WrittenInOrder(prog) ==
    /\ \A t \in Creates(prog, {"TABLE"}) :
            \A c \in Creates(prog, {"DATABASE", "SCHEMA"}) : c < t
    /\ \A i \in Inserts(prog) :
            \E c \in Creates(prog, {"TABLE"}) :
                /\ c < i
                /\ prog[c].sql.verb = "CREATE OR REPLACE"
                /\ prog[c].sql.name = prog[i].sql.name
    /\ \A v \in Creates(prog, {"VIEW", "CORTEX SEARCH SERVICE"}) :
            \A i \in Inserts(prog) : i < v
    /\ prog[Len(prog)].step = "validate_deployment"
    /\ \A i \in 1..Len(prog) : \A j \in i..Len(prog) :
            prog[i].step = "validate_deployment" => prog[j].step = "validate_deployment"

\* Entry i of the program went out, with success, before the k-th statement.
DoneBefore(i, k) == \E j \in 1..(k - 1) : issued[j][1] = i /\ issued[j][2]

C21_NoRetry ==
    /\ \A j \in 1..Len(issued) : \A k \in 1..Len(issued) :
            j < k => issued[j][1] < issued[k][1]
    /\ \A k \in 1..Len(issued) :
            Failed(k) => \A j \in (k + 1)..Len(issued) : issued[j][1] # issued[k][1]
    /\ (pc = "run" /\ Len(issued) > 0) => ip > issued[Len(issued)][1]
    /\ Len(issued) <= Len(Program)

\* A deploy whose search service could not be created went on, the failure
\* swallowed, and sent the rest of its statements.
C21_Witness ==
    /\ script = "dual" /\ pc = "done" /\ exit = "returned"
    /\ \E k \in 1..Len(issued) :
            /\ Failed(k)
            /\ Program[issued[k][1]].try = "search"
            /\ k < Len(issued)
    /\ Len(issued) < Len(Program)

-----------------------------------------------------------------------------
(* The date helpers, called as the test and the pipelines call them: on    *)
(* any day, with any configured HISTORICAL_DAYS, on either kind of C       *)
(* library.                                                                *)

DateYears == {1000, 2024}
Dates == {dt \in DateYears \X (1..12) \X (1..31) : dt[3] <= DaysInMonth(dt[1], dt[2])}
HistoricalDaysValues == {1, 365, 730, 400000}

InitDates ==
    /\ script = "none" /\ pc = "idle" /\ ip = 0
    /\ argv = <<>> /\ level = <<>> /\ mode = "" /\ answer = NoAnswer
    /\ issued = <<>>
    /\ conn = "none" /\ cursor = "none" /\ opened = 0
    /\ log = {} /\ exit = "none"
    /\ objs = FreshAccount
    /\ rows = [t \in {} |-> 0]
    /\ curDb = "" /\ curSchema = ""
    /\ objs0 = FreshAccount /\ prev = "none" /\ runs = 0 /\ faults = 0
    /\ config \in {[DataEngDemoConfig EXCEPT !.HISTORICAL_DAYS = h] : h \in HistoricalDaysValues}
    /\ today \in Dates
    /\ padYear \in BOOLEAN
    /\ dres = NoResults
    /\ ret = "none" /\ closes = 0 /\ files = NoFiles /\ settings = NoSettings
    /\ linesep = LF /\ history = <<>> /\ quality = NoQuality

\* test_date_ranges: start_date = DataEngDemoConfig.get_start_date()
Call_get_start_date ==
    /\ ~dres.startDone
    /\ LET r == get_start_date(today, config, padYear)
       IN dres' = [dres EXCEPT !.startDone = TRUE, !.startRaised = r.raised,
                               !.start = r.value, !.startAt = today]
    /\ UNCHANGED <<inputVars, sessVars, whVars, histVars, pc, ip, issued, log, exit,
                   faults, config, today, padYear, labVars, history>>

\* Midnight passes between the two reads of the clock.
Tick ==
    /\ dres.startDone /\ ~dres.startRaised /\ ~dres.endDone
    /\ dres.ticks < MaxTicks
    /\ today' = FromOrdinal(ToOrdinal(today) + 1)
    /\ dres' = [dres EXCEPT !.ticks = @ + 1]
    /\ UNCHANGED <<inputVars, sessVars, whVars, histVars, pc, ip, issued, log, exit,
                   faults, config, padYear, labVars, history>>

\* test_date_ranges: end_date = DataEngDemoConfig.get_end_date()
Call_get_end_date ==
    /\ dres.startDone /\ ~dres.startRaised /\ ~dres.endDone
    /\ dres' = [dres EXCEPT !.endDone = TRUE, !.end = get_end_date(today, config, padYear),
                            !.endAt = today]
    /\ UNCHANGED <<inputVars, sessVars, whVars, histVars, pc, ip, issued, log, exit,
                   faults, config, today, padYear, labVars, history>>

Call_get_quarterly_dates ==
    /\ ~dres.quartersDone
    /\ \E n \in 1..MaxQuarters :
        dres' = [dres EXCEPT !.quartersDone = TRUE, !.num_quarters = n,
                             !.quarters = get_quarterly_dates(today, n, padYear),
                             !.quartersAt = today]
    /\ UNCHANGED <<inputVars, sessVars, whVars, histVars, pc, ip, issued, log, exit,
                   faults, config, today, padYear, labVars, history>>

NextDates ==
    \/ Call_get_start_date
    \/ Tick
    \/ Call_get_end_date
    \/ Call_get_quarterly_dates

SpecDates == InitDates /\ [][NextDates]_vars

\* A date written as YYYY-MM-DD.
YYYY_MM_DD(dt) ==
    ZeroPad(Decimal(dt[1]), 4) \o <<"-">> \o ZeroPad(Decimal(dt[2]), 2)
    \o <<"-">> \o ZeroPad(Decimal(dt[3]), 2)

DateStringsRight ==
    /\ dres.startDone =>
        /\ ~dres.startRaised
        /\ Len(dres.start) = 10
        /\ dres.start =
             YYYY_MM_DD(FromOrdinal(ToOrdinal(dres.startAt) - config.HISTORICAL_DAYS))
    /\ dres.endDone =>
        /\ Len(dres.end) = 10
        /\ dres.end = YYYY_MM_DD(dres.endAt)
        /\ StrLess(dres.start, dres.end)
        /\ ~StrLess(dres.end, dres.start)

\* C9 as stated: on every day of a four-digit year and for every
\* HISTORICAL_DAYS >= 1, the start and end dates are 10-character
\* YYYY-MM-DD strings, the start being the day HISTORICAL_DAYS days before
\* the call and comparing less than the end.
C9_DateStringsAsStated ==
    (config.HISTORICAL_DAYS >= 1 /\ (dres.startDone => dres.startAt[1] >= 1000)) =>
        DateStringsRight

\* C9, amended: the same, for the days and the HISTORICAL_DAYS >= 1 whose
\* start date itself falls in a four-digit year (1000 or later).
C9_DateStringsFourDigitStartYear ==
    ( /\ config.HISTORICAL_DAYS >= 1
      /\ dres.startDone
      /\ ToOrdinal(dres.startAt) - config.HISTORICAL_DAYS >= ToOrdinal(<<1000, 1, 1>>) ) =>
        DateStringsRight

C9_Witness ==
    /\ dres.endDone
    /\ ~padYear
    /\ dres.ticks = 1
    /\ config.HISTORICAL_DAYS = 365
    /\ dres.startAt = <<2024, 12, 31>>
    /\ dres.endAt = <<2025, 1, 1>>

\* The quarter ends, counted back from the most recent one not after dt.
MostRecentQuarterEnd(dt) ==
    LET ends == {<<dt[1] - 1, 12, 31>>, <<dt[1], 3, 31>>, <<dt[1], 6, 30>>,
                 <<dt[1], 9, 30>>, <<dt[1], 12, 31>>}
        past == {q \in ends : ToOrdinal(q) <= ToOrdinal(dt)}
    IN CHOOSE q \in past : \A r \in past : ToOrdinal(r) <= ToOrdinal(q)

PrecedingQuarterEnd(q) ==
    CASE q[2] = 3 -> <<q[1] - 1, 12, 31>>
      [] q[2] = 6 -> <<q[1], 3, 31>>
      [] q[2] = 9 -> <<q[1], 6, 30>>
      [] OTHER -> <<q[1], 9, 30>>

RECURSIVE QuarterEndBack(_, _)
QuarterEndBack(dt, k) ==
    IF k = 1 THEN MostRecentQuarterEnd(dt) ELSE PrecedingQuarterEnd(QuarterEndBack(dt, k - 1))

\* C10: get_quarterly_dates(n) returns n dates; the first is the most
\* recent quarter end not after today, and each following one is the end of
\* the quarter before (so every element is a 03-31, 06-30, 09-30 or 12-31).
\* Stated for the years whose results all have four digits.
C10_QuarterEnds ==
    (dres.quartersDone /\ dres.quartersAt[1] >= 2000) =>
        /\ Len(dres.quarters) = dres.num_quarters
        /\ \A k \in 1..dres.num_quarters :
              dres.quarters[k] = YYYY_MM_DD(QuarterEndBack(dres.quartersAt, k))


-----------------------------------------------------------------------------
(* CORTEX_SEARCH_JPMC/src/database/connection.py: the calls of             *)
(* SnowflakeConnectionManager, one after the other.  The driver is the     *)
(* environment: each of its calls may raise.  issued holds the driver      *)
(* calls of the current manager call as <<call, succeeded>>.               *)

\* Manager calls made in one behaviour.
MaxCalls == 2
\* Driver calls and caller bodies that raise in one behaviour.
MaxFailures == 2

CM_operations == {"get_connection", "get_cursor", "execute_query", "test_connection"}

\* The statements get_connection configures the session with.
CM_session_statements ==
    << "ALTER SESSION SET USE_CACHED_RESULT",
       "ALTER SESSION SET QUERY_TIMEOUT",
       "ALTER SESSION SET TIMEZONE" >>

\* What the calls of the manager leave alone.
CM_frame ==
    <<argv, level, mode, answer, whVars, objs0, prev, config, dateVars, files, settings, linesep,
      history, quality>>

\* One call of the driver, or the body of the caller's with statement.
DriverCall(call, ok) ==
    /\ issued' = Append(issued, <<call, ok>>)
    /\ IF ok THEN UNCHANGED faults
             ELSE faults < MaxFailures /\ faults' = faults + 1

get_connection_finally_skipping(connection) == FALSE

\* finally: if connection: connection.close()
get_connection_finally(connection) == connection # "none"

test_connection_reraising(raising, value) ==
    IF raising THEN [exit |-> "raised", ret |-> "none"]
               ELSE [exit |-> "returned", ret |-> value]

\* test_connection: return True in the with body; except Exception: return False
test_connection(raising, value) ==
    IF raising THEN [exit |-> "returned", ret |-> FALSE]
               ELSE [exit |-> "returned", ret |-> value]

\* execute_query: return results in the with body; both except clauses re-raise
execute_query(raising, value) ==
    IF raising THEN [exit |-> "raised", ret |-> "none"]
               ELSE [exit |-> "returned", ret |-> value]

\* A caller of the manager calls one of its methods.
CM_call ==
    /\ pc \in {"idle", "done"}
    /\ runs < MaxCalls
    /\ \E op \in CM_operations : script' = op
    /\ runs' = runs + 1
    /\ pc' = "connect" /\ ip' = 0
    /\ issued' = <<>>
    /\ conn' = "none" /\ cursor' = "none"
    /\ log' = {} /\ exit' = "none" /\ ret' = "none"
    /\ UNCHANGED <<opened, closes, faults, CM_frame>>

\* get_connection: connection = snowflake.connector.connect(...)
CM_connect ==
    /\ pc = "connect"
    /\ \E ok \in BOOLEAN :
        /\ DriverCall("connect", ok)
        /\ IF ok THEN /\ conn' = "open" /\ opened' = opened + 1
                      /\ pc' = "configure"
                      /\ UNCHANGED exit
                 ELSE /\ pc' = "except" /\ exit' = "raising"
                      /\ UNCHANGED <<conn, opened>>
    /\ UNCHANGED <<script, ip, cursor, log, runs, ret, closes, CM_frame>>

\* get_connection: with connection.cursor() as cursor: three cursor.execute(...)
CM_configure ==
    /\ pc = "configure"
    /\ \E ok \in BOOLEAN :
        CASE ip = 0 ->
               /\ DriverCall("cursor", ok)
               /\ IF ok THEN cursor' = "open" /\ ip' = 1 /\ UNCHANGED <<pc, exit>>
                        ELSE pc' = "except" /\ exit' = "raising" /\ UNCHANGED <<cursor, ip>>
          [] ip \in 1..Len(CM_session_statements) ->
               /\ DriverCall(CM_session_statements[ip], ok)
               /\ IF ok THEN ip' = ip + 1 /\ UNCHANGED <<pc, exit, cursor>>
                        ELSE \* the with statement closes the cursor on the way out
                             /\ cursor' = "closed"
                             /\ pc' = "except" /\ exit' = "raising" /\ UNCHANGED ip
          [] OTHER ->
               \* the with statement ends: cursor.close(), then yield connection
               /\ DriverCall("cursor.close", ok)
               /\ cursor' = "closed"
               /\ IF ok THEN pc' = "yield" /\ UNCHANGED <<exit, ip>>
                        ELSE pc' = "except" /\ exit' = "raising" /\ UNCHANGED ip
    /\ UNCHANGED <<script, conn, opened, log, runs, ret, closes, CM_frame>>

\* yield connection: the caller's body (get_connection), or get_cursor's
\* cursor = connection.cursor(cursor_class)
CM_yield ==
    /\ pc = "yield"
    /\ \E ok \in BOOLEAN :
        IF script = "get_connection"
        THEN /\ DriverCall("body", ok)
             /\ IF ok THEN pc' = "finally" /\ UNCHANGED exit
                      ELSE pc' = "except" /\ exit' = "raising"
             /\ UNCHANGED cursor
        ELSE /\ DriverCall("cursor", ok)
             /\ IF ok THEN cursor' = "open" /\ pc' = "body" /\ UNCHANGED exit
                      ELSE pc' = "except" /\ exit' = "raising" /\ UNCHANGED cursor
    /\ UNCHANGED <<script, ip, conn, opened, log, runs, ret, closes, CM_frame>>

\* yield cursor: the caller's body (get_cursor), or cursor.execute(...) and the
\* fetch of execute_query and test_connection
CM_body ==
    /\ pc = "body"
    /\ \E ok \in BOOLEAN :
        /\ DriverCall(IF script = "get_cursor" THEN "body" ELSE "execute", ok)
        /\ IF ok THEN /\ ret' = CASE script = "test_connection" -> TRUE
                                  [] script = "execute_query" -> "results"
                                  [] OTHER -> "none"
                      /\ UNCHANGED exit
                 ELSE exit' = "raising" /\ UNCHANGED ret
    /\ pc' = "cursor_close"
    /\ UNCHANGED <<script, ip, conn, cursor, opened, log, runs, closes, CM_frame>>

\* get_cursor: finally: cursor.close()
CM_cursor_close ==
    /\ pc = "cursor_close"
    /\ \E ok \in BOOLEAN :
        /\ DriverCall("cursor.close", ok)
        /\ cursor' = "closed"
        /\ IF ok THEN /\ pc' = IF exit = "raising" THEN "except" ELSE "finally"
                      /\ UNCHANGED <<exit, ret>>
                 ELSE \* the exception replaces the pending return
                      /\ pc' = "except" /\ exit' = "raising" /\ ret' = "none"
    /\ UNCHANGED <<script, ip, conn, opened, log, runs, closes, CM_frame>>

\* get_connection: except ...: logger.error(...); raise
CM_except ==
    /\ pc = "except"
    /\ log' = log \cup {"connection error"}
    /\ pc' = "finally"
    /\ UNCHANGED <<script, ip, issued, sessVars, exit, runs, faults, ret, closes, CM_frame>>

\* get_connection: finally: if connection: try: connection.close()
\*                                         except Exception: logger.warning(...)
\* close() ends the handle whether or not it reports an error.
CM_finally ==
    /\ pc = "finally"
    /\ IF get_connection_finally(conn)
       THEN \E ok \in BOOLEAN :
               /\ DriverCall("close", ok)
               /\ conn' = "closed" /\ closes' = closes + 1
               /\ log' = log \cup {IF ok THEN "connection closed" ELSE "error closing connection"}
       ELSE UNCHANGED <<issued, faults, conn, closes, log>>
    /\ pc' = "return"
    /\ UNCHANGED <<script, ip, cursor, opened, exit, runs, ret, CM_frame>>

\* The context managers have exited: the outcome of the manager's method.
CM_return ==
    /\ pc = "return"
    /\ LET r == CASE script = "test_connection" -> test_connection(exit = "raising", ret)
                  [] script = "execute_query" -> execute_query(exit = "raising", ret)
                  [] OTHER -> [exit |-> IF exit = "raising" THEN "raised" ELSE "returned",
                               ret |-> "none"]
       IN /\ exit' = r.exit /\ ret' = r.ret
          /\ log' = IF exit = "raising" /\ script \in {"test_connection", "execute_query"}
                    THEN log \cup {"call failed"} ELSE log
    /\ pc' = "done"
    /\ UNCHANGED <<script, ip, issued, sessVars, runs, faults, closes, CM_frame>>

NextConn ==
    \/ CM_call \/ CM_connect \/ CM_configure \/ CM_yield \/ CM_body
    \/ CM_cursor_close \/ CM_except \/ CM_finally \/ CM_return

SpecConn == Init /\ [][NextConn]_vars

\* The driver calls of the current manager call that raised.
FailedCalls == {issued[i][1] : i \in {j \in 1..Len(issued) : ~issued[j][2]}}

\* C11: the manager never leaks a connection.  After every completed call the
\* number of connections opened equals the number closed and the call's
\* connection is not open, whether the call ended normally, by an exception of
\* the caller's body, or by a failing ALTER SESSION; an error of
\* connection.close() alone never makes a call raise; and the cursor of
\* get_cursor is closed before the connection is.
C11_NoConnectionLeak ==
    /\ pc \in {"idle", "done"} => opened = closes /\ conn # "open"
    /\ opened - closes \in {0, 1}
    /\ (pc \in {"return", "done"} /\ FailedCalls \subseteq {"close"})
          => exit \notin {"raising", "raised"}
    /\ conn = "closed" => cursor # "open"
    /\ \A i, j \in 1..Len(issued) :
          issued[i][1] = "close" /\ issued[j][1] = "cursor.close" => j < i

\* Two calls completed; in the second the caller's body raised and then
\* connection.close() raised too, and both connections were closed.
C11_Witness ==
    /\ pc = "done" /\ script = "get_cursor" /\ runs = 2
    /\ opened = 2 /\ closes = 2
    /\ FailedCalls = {"body", "close"}
    /\ exit = "raised" /\ cursor = "closed" /\ conn = "closed"


\* C12 as stated: test_connection returns True when nothing failed and False
\* when anything failed, closing included, and never raises; execute_query
\* raises exactly when something failed.
C12_EveryFailureReported ==
    pc = "done" =>
        /\ script = "test_connection" =>
              /\ exit = "returned"
              /\ ret = (FailedCalls = {})
        /\ script = "execute_query" =>
              (exit = "raised") = (FailedCalls # {})

\* C12: test_connection never raises; it returns False when connecting,
\* configuring the session, the query or closing a cursor failed and True
\* otherwise, an error of connection.close() being swallowed by get_connection
\* and leaving the result True; execute_query raises on exactly the failures
\* on which test_connection returns False, and returns its results otherwise.
C12_FailuresBeforeCloseReported ==
    pc = "done" =>
        /\ script = "test_connection" =>
              /\ exit = "returned"
              /\ ret = (FailedCalls \subseteq {"close"})
        /\ script = "execute_query" =>
              /\ (exit = "raised") = ~(FailedCalls \subseteq {"close"})
              /\ (exit = "returned") = (FailedCalls \subseteq {"close"})
              /\ exit = "returned" => ret = "results"

\* test_connection reported a failing ALTER SESSION as False, and the
\* connection it had opened was closed.
C12_Witness ==
    /\ pc = "done" /\ script = "test_connection"
    /\ FailedCalls = {CM_session_statements[2]}
    /\ exit = "returned" /\ ret = FALSE /\ conn = "closed"


-----------------------------------------------------------------------------
(* CORTEX_SEARCH_JPMC/setup.py: create_env_file, run in a working          *)
(* directory that may or may not hold .env and env.template, on a platform *)
(* whose line separator is LF or CRLF.  A file's content is the sequence   *)
(* of its characters.                                                      *)

\* Longest file content.
MaxContent == 2

FileChars == {"K", "\r", "\n"}
Contents == UNION {[1..n -> FileChars] : n \in 0..MaxContent}

\* open(name, "r").read(): universal newlines, every \r\n and \r is read as \n.
RECURSIVE ReadText(_)
ReadText(b) ==
    IF b = <<>> THEN <<>>
    ELSE IF Head(b) = "\r"
         THEN IF Len(b) > 1 /\ b[2] = "\n"
              THEN <<"\n">> \o ReadText(SubSeq(b, 3, Len(b)))
              ELSE <<"\n">> \o ReadText(Tail(b))
         ELSE <<Head(b)>> \o ReadText(Tail(b))

\* open(name, "w").write(text): every \n is written as os.linesep.
RECURSIVE WriteText(_, _)
WriteText(t, sep) ==
    IF t = <<>> THEN <<>>
    ELSE (IF Head(t) = "\n" THEN sep ELSE <<Head(t)>>) \o WriteText(Tail(t), sep)

\* Path(name).exists()
Exists(fs, name) == fs[name] # Missing

create_env_file_overwriting(fs) == Exists(fs, "env.template")

\* if not Path(".env").exists(): if Path("env.template").exists():
create_env_file_creates(fs) == ~Exists(fs, ".env") /\ Exists(fs, "env.template")

InitEnv ==
    /\ script = "none" /\ pc = "idle" /\ ip = 0
    /\ argv = <<>> /\ level = <<>> /\ mode = "" /\ answer = NoAnswer
    /\ issued = <<>>
    /\ conn = "none" /\ cursor = "none" /\ opened = 0
    /\ log = {} /\ exit = "none"
    /\ objs = FreshAccount
    /\ rows = [t \in {} |-> 0]
    /\ curDb = "" /\ curSchema = ""
    /\ objs0 = FreshAccount /\ prev = "none" /\ runs = 0 /\ faults = 0
    /\ config = DataEngDemoConfig
    /\ today = <<2024, 1, 1>> /\ padYear = TRUE /\ dres = NoResults
    /\ ret = "none" /\ closes = 0 /\ settings = NoSettings /\ history = <<>> /\ quality = NoQuality
    /\ files \in [FileNames -> Contents \cup {Missing}]
    /\ linesep \in {LF, CRLF}

EnvFrame ==
    <<argv, level, mode, answer, ip, issued, sessVars, whVars, objs0, prev, faults, config,
      dateVars, closes, settings, linesep, history, quality>>

\* setup.py main(): create_env_file()
create_env_file ==
    /\ pc \in {"idle", "done"}
    /\ runs < MaxCalls
    /\ script' = "create_env_file" /\ runs' = runs + 1 /\ pc' = "done"
    /\ IF create_env_file_creates(files)
       THEN \/ \* the template is read and .env is written
               /\ files' = [files EXCEPT ![".env"] =
                                WriteText(ReadText(files["env.template"]), linesep)]
               /\ log' = {"Creating .env file from template...", ".env file created"}
               /\ exit' = "returned" /\ ret' = None
            \/ \* open("env.template") or read() raises
               /\ log' = {"Creating .env file from template..."}
               /\ exit' = "raised" /\ ret' = "none"
               /\ UNCHANGED files
            \/ \* open(".env", "w") raises, or write() does after the file was created
               /\ \E created \in BOOLEAN :
                     files' = IF created THEN [files EXCEPT ![".env"] = <<>>] ELSE files
               /\ log' = {"Creating .env file from template..."}
               /\ exit' = "raised" /\ ret' = "none"
       ELSE /\ log' = IF Exists(files, ".env")
                      THEN {".env file already exists"}
                      ELSE {"env.template not found, skipping .env creation"}
            /\ exit' = "returned" /\ ret' = None
            /\ UNCHANGED files
    /\ UNCHANGED EnvFrame

\* The developer removes or edits a file between two runs of setup.py.
EditFile ==
    /\ pc = "done"
    /\ runs < MaxCalls
    /\ \E f \in FileNames, c \in {Missing, <<"K">>} :
          /\ files[f] # c
          /\ files' = [files EXCEPT ![f] = c]
    /\ script' = "none" /\ pc' = "idle" /\ log' = {} /\ exit' = "none" /\ ret' = "none"
    /\ UNCHANGED <<runs, EnvFrame>>

NextEnv == create_env_file \/ EditFile

SpecEnv == InitEnv /\ [][NextEnv]_vars

\* A step of create_env_file.
CreateEnvStep == script' = "create_env_file" /\ runs' = runs + 1

\* The lines of a file, ended by \r\n, \r or \n; the text after the last line
\* ending is the last line.
RECURSIVE Lines(_, _)
Lines(b, line) ==
    IF b = <<>> THEN <<line>>
    ELSE IF Head(b) = "\n" THEN <<line>> \o Lines(Tail(b), <<>>)
    ELSE IF Head(b) = "\r"
         THEN <<line>> \o Lines(IF Len(b) > 1 /\ b[2] = "\n" THEN SubSeq(b, 3, Len(b))
                                                                ELSE Tail(b), <<>>)
    ELSE Lines(Tail(b), Append(line, Head(b)))

\* Every line ending of the content is sep.
RECURSIVE EndingsAre(_, _)
EndingsAre(b, sep) ==
    IF b = <<>> THEN TRUE
    ELSE IF Head(b) \in {"\r", "\n"}
         THEN /\ Len(b) >= Len(sep) /\ SubSeq(b, 1, Len(sep)) = sep
              /\ EndingsAre(SubSeq(b, Len(sep) + 1, Len(b)), sep)
    ELSE EndingsAre(Tail(b), sep)

-----------------------------------------------------------------------------
(* CORTEX_SEARCH_JPMC/src/config/settings.py: validate_settings, called by *)
(* the Streamlit main() on whatever snowflake_settings the environment     *)
(* produced, and the connection parameters the manager builds from the     *)
(* same settings.                                                          *)

\* bool(v) of a str or None.
Truthy(v) == v \notin {None, ""}

SettingsValues ==
    [ account : {"", "xy12345"}, user : {"", "demo_user"},
      password : {None, "", "secret"},
      private_key_path : {None, "", "rsa_key.p8"},
      private_key_passphrase : {None},
      authenticator : {None, "externalbrowser"} ]

\* _build_connection_params: the keys of the parameters and their values
\* (the Snowflake object names, the same in every run, are left out).
_build_connection_params(s) ==
    {<<"account", s.account>>, <<"user", s.user>>}
    \cup (IF Truthy(s.password) THEN {<<"password", s.password>>}
          ELSE IF Truthy(s.private_key_path)
               THEN {<<"private_key_path", s.private_key_path>>}
                    \cup (IF Truthy(s.private_key_passphrase)
                          THEN {<<"private_key_passphrase", s.private_key_passphrase>>}
                          ELSE {})
          ELSE IF Truthy(s.authenticator) THEN {<<"authenticator", s.authenticator>>}
          ELSE {})

validate_settings_password_only(s, makedirs_ok) ==
    IF ~Truthy(s.account) \/ ~Truthy(s.user)
    THEN [ret |-> FALSE, log |-> {"Missing required Snowflake connection parameters"}]
    ELSE IF ~Truthy(s.password)
    THEN [ret |-> FALSE, log |-> {"No authentication method configured"}]
    ELSE IF ~makedirs_ok
    THEN [ret |-> FALSE, log |-> {"Settings validation failed"}]
    ELSE [ret |-> TRUE, log |-> {"Settings validation passed"}]

\* validate_settings; makedirs_ok is whether os.makedirs("logs", exist_ok=True)
\* returns, should it be reached.
validate_settings(s, makedirs_ok) ==
    IF ~Truthy(s.account) \/ ~Truthy(s.user)
    THEN [ret |-> FALSE, log |-> {"Missing required Snowflake connection parameters"}]
    ELSE IF ~Truthy(s.password) /\ ~Truthy(s.private_key_path)
    THEN [ret |-> FALSE, log |-> {"No authentication method configured"}]
    ELSE IF ~makedirs_ok
    THEN [ret |-> FALSE, log |-> {"Settings validation failed"}]
    ELSE [ret |-> TRUE, log |-> {"Settings validation passed"}]

InitSettings ==
    /\ script = "none" /\ pc = "idle" /\ ip = 0
    /\ argv = <<>> /\ level = <<>> /\ mode = "" /\ answer = NoAnswer
    /\ issued = <<>>
    /\ conn = "none" /\ cursor = "none" /\ opened = 0
    /\ log = {} /\ exit = "none"
    /\ objs = FreshAccount
    /\ rows = [t \in {} |-> 0]
    /\ curDb = "" /\ curSchema = ""
    /\ objs0 = FreshAccount /\ prev = "none" /\ runs = 0 /\ faults = 0
    /\ config = DataEngDemoConfig
    /\ today = <<2024, 1, 1>> /\ padYear = TRUE /\ dres = NoResults
    /\ ret = "none" /\ closes = 0 /\ files = NoFiles /\ linesep = LF /\ history = <<>> /\ quality = NoQuality
    /\ settings \in SettingsValues

SettingsFrame ==
    <<argv, level, mode, answer, ip, sessVars, whVars, objs0, prev, config,
      dateVars, closes, files, settings, linesep, history, quality>>

\* streamlit_app/main.py main(): if not validate_settings(): show_error_page(...)
Call_validate_settings ==
    /\ pc \in {"idle", "done"}
    /\ runs < MaxCalls
    /\ script' = "validate_settings" /\ runs' = runs + 1 /\ pc' = "done"
    /\ \E makedirs_ok \in BOOLEAN :
          LET r == validate_settings(settings, makedirs_ok)
              reached == Truthy(settings.account) /\ Truthy(settings.user)
                         /\ (Truthy(settings.password) \/ Truthy(settings.private_key_path))
          IN /\ makedirs_ok \/ (reached /\ faults < MaxFailures)
             /\ issued' = IF reached THEN <<<<"os.makedirs", makedirs_ok>>>> ELSE <<>>
             /\ faults' = IF makedirs_ok THEN faults ELSE faults + 1
             /\ ret' = r.ret /\ log' = r.log
             /\ exit' = "returned"
    /\ UNCHANGED SettingsFrame

\* connection.py: connection_manager = SnowflakeConnectionManager()
CM_init ==
    /\ pc \in {"idle", "done"}
    /\ runs < MaxCalls
    /\ script' = "__init__" /\ runs' = runs + 1 /\ pc' = "done"
    /\ ret' = _build_connection_params(settings)
    /\ issued' = <<>> /\ log' = {} /\ exit' = "returned"
    /\ UNCHANGED <<faults, SettingsFrame>>

NextSettings == Call_validate_settings \/ CM_init

SpecSettings == InitSettings /\ [][NextSettings]_vars

\* C14: validate_settings always returns, and returns True exactly when the
\* account and the user are non-empty, a password or a private key path is
\* configured, and the logs directory could be created.
C14_ValidateSettings ==
    (script = "validate_settings" /\ pc = "done") =>
        /\ exit = "returned"
        /\ ret \in BOOLEAN
        /\ ret = (/\ settings.account # "" /\ settings.user # ""
                  /\ \/ settings.password \notin {None, ""}
                     \/ settings.private_key_path \notin {None, ""}
                  /\ <<"os.makedirs", FALSE>> \notin {issued[i] : i \in 1..Len(issued)})

\* Settings with a private key path and no password were validated.
C14_Witness ==
    /\ script = "validate_settings" /\ pc = "done"
    /\ settings.account # "" /\ settings.user # ""
    /\ settings.password = None /\ settings.private_key_path = "rsa_key.p8"
    /\ issued = <<<<"os.makedirs", TRUE>>>>
    /\ ret = TRUE


-----------------------------------------------------------------------------
(* The quarter lists the two deploy classes build when they are            *)
(* constructed, on any day of a leap year or of the year after it.  A      *)
(* quarter is [label, start, end], its label a sequence of characters.     *)

QuarterYears == {2024, 2025}
QuarterDates ==
    {dt \in QuarterYears \X (1..12) \X (1..31) : dt[3] <= DaysInMonth(dt[1], dt[2])}

\* quarters[::-1]
Reversed(seq) == [i \in 1..Len(seq) |-> seq[Len(seq) + 1 - i]]

\* f"{quarter_start.year}Q{((quarter_start.month - 1) // 3) + 1}"
quarter_label(quarter_start) ==
    Decimal(quarter_start[1]) \o <<"Q">> \o Decimal(((quarter_start[2] - 1) \div 3) + 1)

\* DualToolMarketsDemo._get_recent_quarters
_get_recent_quarters(current_date, num_quarters) ==
    LET base_date == <<current_date[1], ((current_date[2] - 1) \div 3) * 3 + 1, 1>>
        quarter(i) ==
            LET back == MinusTimedelta(base_date, 90 * i).value
                quarter_start == <<back[1], ((back[2] - 1) \div 3) * 3 + 1, 1>>
                quarter_end ==
                    IF quarter_start[2] = 10
                    THEN MinusTimedelta(<<quarter_start[1] + 1, 1, 1>>, 1).value
                    ELSE MinusTimedelta(<<quarter_start[1], quarter_start[2] + 3, 1>>, 1).value
            IN [label |-> quarter_label(quarter_start),
                start |-> quarter_start, end |-> quarter_end]
    IN Reversed([k \in 1..num_quarters |-> quarter(k - 1)])

_get_quarter_start_of_month(date) == <<date[1], date[2], 1>>

\* MarketsAIDemoDeployment._get_quarter_start
_get_quarter_start(date) ==
    LET quarter == ((date[2] - 1) \div 3) + 1
        start_month == (quarter - 1) * 3 + 1
    IN <<date[1], start_month, 1>>

\* MarketsAIDemoDeployment._get_quarter_end
_get_quarter_end(quarter_start) ==
    IF quarter_start[2] = 10
    THEN MinusTimedelta(<<quarter_start[1] + 1, 1, 1>>, 1).value
    ELSE MinusTimedelta(<<quarter_start[1], quarter_start[2] + 3, 1>>, 1).value

\* MarketsAIDemoDeployment._get_historical_quarters
_get_historical_quarters(current_date, num_quarters) ==
    LET current_quarter_start == _get_quarter_start(current_date)
        quarter(i) ==
            LET quarter_start ==
                    _get_quarter_start(MinusTimedelta(current_quarter_start, 90 * i).value)
            IN [label |-> quarter_label(quarter_start),
                start |-> quarter_start, end |-> _get_quarter_end(quarter_start)]
    IN Reversed([k \in 1..num_quarters |-> quarter(k - 1)])

\* MarketsAIDemoDeployment._get_dynamic_date_range
_get_dynamic_date_range(quarters) == <<quarters[1].start, quarters[Len(quarters)].end>>

InitQuarters ==
    /\ script = "none" /\ pc = "idle" /\ ip = 0
    /\ argv = <<>> /\ level = <<>> /\ mode = "" /\ answer = NoAnswer
    /\ issued = <<>>
    /\ conn = "none" /\ cursor = "none" /\ opened = 0
    /\ log = {} /\ exit = "none"
    /\ objs = FreshAccount
    /\ rows = [t \in {} |-> 0]
    /\ curDb = "" /\ curSchema = ""
    /\ objs0 = FreshAccount /\ prev = "none" /\ runs = 0 /\ faults = 0
    /\ config = DataEngDemoConfig
    /\ padYear = TRUE /\ dres = NoResults
    /\ ret = "none" /\ closes = 0 /\ files = NoFiles /\ settings = NoSettings
    /\ linesep = LF /\ history = <<>> /\ quality = NoQuality
    /\ today \in QuarterDates

QuartersFrame ==
    <<argv, level, mode, answer, ip, issued, sessVars, log, exit, whVars, objs0, prev, faults,
      config, dateVars, closes, files, settings, linesep, history, quality>>

\* demo = DualToolMarketsDemo(): self.current_date = datetime.now();
\* self.quarters = self._get_recent_quarters(4)
DT_init ==
    /\ pc \in {"idle", "done"}
    /\ runs < MaxCalls
    /\ script' = "dual" /\ runs' = runs + 1 /\ pc' = "done"
    /\ ret' = [quarters |-> _get_recent_quarters(today, DT_num_quarters)]
    /\ UNCHANGED QuartersFrame

\* deployment = MarketsAIDemoDeployment(): self.current_date = datetime.now();
\* self.quarters = self._get_historical_quarters(8); self.date_range = ...
MD_init ==
    /\ pc \in {"idle", "done"}
    /\ runs < MaxCalls
    /\ script' = "markets" /\ runs' = runs + 1 /\ pc' = "done"
    /\ LET quarters == _get_historical_quarters(today, MD_num_quarters)
       IN ret' = [quarters |-> quarters, date_range |-> _get_dynamic_date_range(quarters)]
    /\ UNCHANGED QuartersFrame

NextQuarters == DT_init \/ MD_init

SpecQuarters == InitQuarters /\ [][NextQuarters]_vars

\* The calendar quarter n of year y, under its name.
CalendarQuarter(y, n) ==
    [label |-> ZeroPad(Decimal(y), 4) \o <<"Q">> \o Decimal(n),
     start |-> <<y, 3 * n - 2, 1>>,
     end |-> <<y, 3 * n, DaysInMonth(y, 3 * n)>>]

\* C17: the quarter list of a constructed deploy object has as many entries
\* as the class asks for (4 in the dual-tool deploy, 8 in the markets deploy);
\* every entry is a calendar quarter under its own label YYYYQn; each entry
\* starts the day after the one before it ends, so that the list is
\* chronological and its labels differ; and the last entry holds today.
C17_QuarterList ==
    (pc = "done" /\ script \in {"dual", "markets"}) =>
        LET q == ret.quarters
            N == IF script = "dual" THEN 4 ELSE 8
        IN /\ Len(q) = N
           /\ \A i \in 1..Len(q) :
                 \E y \in 2000..2030, n \in 1..4 : q[i] = CalendarQuarter(y, n)
           /\ \A i \in 1..(Len(q) - 1) :
                 /\ ToOrdinal(q[i + 1].start) = ToOrdinal(q[i].end) + 1
                 /\ ToOrdinal(q[i].start) < ToOrdinal(q[i + 1].start)
           /\ \A i, j \in 1..Len(q) : i # j => q[i].label # q[j].label
           /\ ToOrdinal(q[Len(q)].start) <= ToOrdinal(today)
           /\ ToOrdinal(today) <= ToOrdinal(q[Len(q)].end)

\* The markets deploy constructed on the last day of February of a leap
\* year: eight quarters from the second quarter of 2022 to the first of 2024.
C17_Witness ==
    /\ pc = "done" /\ script = "markets" /\ today = <<2024, 2, 29>>
    /\ Len(ret.quarters) = 8
    /\ ret.quarters[1] = CalendarQuarter(2022, 2)
    /\ ret.quarters[8] = CalendarQuarter(2024, 1)
    /\ ret.quarters[8].end = <<2024, 3, 31>>

-----------------------------------------------------------------------------
(* pipelines/validation.py and setup_archived.py validate_data_quality:    *)
(* the quality checks of the three curated tables.  A number that Python   *)
(* holds as a float is kept as the fraction <<numerator, denominator>>.    *)

\* What SELECT COUNT(*) of a check's offending rows may return.
MaxBadRows == 1

QC_tables == <<"CUSTOMERS", "PRODUCTS", "TRANSACTIONS">>

\* The checks of each table, in the order they run, named by their issue texts.
_check_customers ==
    <<"NULL customer IDs found", "duplicate customer IDs found",
      "invalid email formats found", "invalid lifetime values found">>

_check_products ==
    <<"NULL product IDs found", "invalid prices found", "products with cost > price found">>

_check_transactions ==
    <<"NULL transaction IDs found", "transactions with invalid customer IDs",
      "transactions with invalid product IDs", "invalid transaction amounts found">>

\* if table_name == "CUSTOMERS": ... elif "PRODUCTS": ... elif "TRANSACTIONS": ...
ChecksOf(table_name) ==
    CASE table_name = "CUSTOMERS" -> _check_customers
      [] table_name = "PRODUCTS" -> _check_products
      [] table_name = "TRANSACTIONS" -> _check_transactions
      [] OTHER -> <<>>

\* DataEngDemoConfig.QUALITY_THRESHOLD_PASS = 0.95
QUALITY_THRESHOLD_PASS == <<95, 100>>

\* A variant of a check that counts a failure without describing it.
record_check_without_issue(results, issue, cnt) ==
    IF cnt = 0
    THEN [results EXCEPT !.checks_passed = @ + 1]
    ELSE [results EXCEPT !.checks_failed = @ + 1]

\* if cnt == 0: results["checks_passed"] += 1
\* else: results["checks_failed"] += 1; results["issues"].append(f"{cnt} ...")
record_check(results, issue, cnt) ==
    IF cnt = 0
    THEN [results EXCEPT !.checks_passed = @ + 1]
    ELSE [results EXCEPT !.checks_failed = @ + 1, !.issues = Append(@, <<cnt, issue>>)]

\* total_checks = passed + failed
\* if total_checks > 0: quality_score = (passed / total_checks) * 100
quality_score(results) ==
    LET total_checks == results.checks_passed + results.checks_failed
    IN IF total_checks > 0 THEN <<results.checks_passed * 100, total_checks>>
       ELSE results.quality_score

\* score < threshold * 100
BelowThreshold(score, threshold) ==
    score[1] * threshold[2] < threshold[1] * 100 * score[2]

QualityFrame ==
    <<script, argv, level, mode, answer, ip, issued, sessVars, whVars, objs0, prev, runs, faults,
      config, dateVars, closes, files, settings, linesep, history>>

\* validate_data_quality(session): all_passed = True; for table in [...]
Call_validate_data_quality ==
    /\ pc \in {"idle", "done"}
    /\ quality' = NoQuality
    /\ ret' = "none" /\ exit' = "none" /\ log' = {}
    /\ pc' = "table"
    /\ UNCHANGED QualityFrame

\* run_data_quality_checks(session, table): the results dictionary is made
\* and the rows are counted.
run_data_quality_checks ==
    /\ pc = "table"
    /\ quality.table < Len(QC_tables)
    /\ quality' = [quality EXCEPT !.table = @ + 1, !.check = 0,
                                  !.results = NewResults(QC_tables[quality.table + 1])]
    /\ ret' = "none"
    /\ pc' = "check"
    /\ UNCHANGED <<QualityFrame, exit, log>>

\* One check of _check_customers, _check_products or _check_transactions:
\* the query counts the offending rows.
QC_check ==
    /\ pc = "check"
    /\ quality.check < Len(ChecksOf(quality.results.table_name))
    /\ \E cnt \in 0..MaxBadRows :
          quality' = [quality EXCEPT
                         !.check = @ + 1,
                         !.results = record_check(@, ChecksOf(@.table_name)[quality.check + 1],
                                                  cnt)]
    /\ UNCHANGED <<QualityFrame, pc, ret, exit, log>>

\* session.table(...).count() or a check's session.sql(...).collect() raises:
\* the exception leaves run_data_quality_checks and validate_data_quality.
QC_raise ==
    /\ pc = "check"
    /\ quality.check < Len(ChecksOf(quality.results.table_name))
    /\ exit' = "raised"
    /\ pc' = "done"
    /\ UNCHANGED <<QualityFrame, quality, ret, log>>

\* The end of run_data_quality_checks: the score, the status logged, return
\* results; and validate_data_quality's
\* if results["quality_score"] < QUALITY_THRESHOLD_PASS * 100: all_passed = False
QC_return ==
    /\ pc = "check"
    /\ quality.check = Len(ChecksOf(quality.results.table_name))
    /\ LET results == [quality.results EXCEPT !.quality_score = quality_score(quality.results)]
           below == BelowThreshold(results.quality_score, QUALITY_THRESHOLD_PASS)
       IN /\ ret' = results
          /\ log' = log \cup {<<results.table_name, IF below THEN "WARNING" ELSE "COMPLETE">>}
          /\ quality' = [quality EXCEPT !.results = results,
                                        !.seen = Append(@, results),
                                        !.all_passed = IF below THEN FALSE ELSE @]
    /\ pc' = "table"
    /\ UNCHANGED <<QualityFrame, exit>>

\* if all_passed: logger.info("All data quality checks passed!")
\* else: logger.warning("Some data quality checks failed")
QC_done ==
    /\ pc = "table"
    /\ quality.table = Len(QC_tables)
    /\ log' = log \cup {<<"validate_data_quality",
                          IF quality.all_passed THEN "all passed" ELSE "some failed">>}
    /\ exit' = "returned"
    /\ pc' = "done"
    /\ UNCHANGED <<QualityFrame, quality, ret>>

NextQuality ==
    \/ Call_validate_data_quality \/ run_data_quality_checks \/ QC_check \/ QC_raise
    \/ QC_return \/ QC_done

SpecQuality == Init /\ [][NextQuality]_vars

\* The number of checks defined for each table.
NumChecks(table_name) ==
    CASE table_name = "CUSTOMERS" -> 4
      [] table_name = "PRODUCTS" -> 3
      [] table_name = "TRANSACTIONS" -> 4

\* What holds of one results dictionary that was returned.
Consistent(r) ==
    /\ r.checks_passed + r.checks_failed = NumChecks(r.table_name)
    /\ Len(r.issues) = r.checks_failed
    /\ r.quality_score[2] > 0
    /\ r.quality_score[1] * (r.checks_passed + r.checks_failed)
          = 100 * r.checks_passed * r.quality_score[2]
    /\ (r.quality_score[1] * 100 >= 95 * 100 * r.quality_score[2]) <=> (r.checks_failed = 0)
    /\ (<<r.table_name, "COMPLETE">> \in log) <=> (r.checks_failed = 0)
    /\ (<<r.table_name, "WARNING">> \in log) <=> (r.checks_failed # 0)

\* run_data_quality_checks has returned and nothing was called since.
HasResult ==
    \/ pc = "table" /\ Len(quality.seen) > 0
    \/ pc = "done" /\ exit = "returned"

AllPassedLogged == <<"validate_data_quality", "all passed">> \in log
SomeFailedLogged == <<"validate_data_quality", "some failed">> \in log

-----------------------------------------------------------------------------
(* The pipeline modules run as scripts: the __main__ blocks of             *)
(* pipelines/ingestion.py, transformation.py, validation.py and of         *)
(* data_sharing/shares.py, monitoring.py.  Each opens a session, sets the  *)
(* context, calls its steps and calls session.close() as its last line.    *)

\* Modules run one after the other.
MaxModuleRuns == 2

PM_modules == {"ingestion", "transformation", "validation", "shares", "monitoring"}

\* What a module sends or calls after the session is open, in order.  An entry
\* names the function and whether that function catches the exception of the
\* entry (monitor_share_usage and show_share_info wrap each query in
\* try / except Exception; the other functions let exceptions through).
PM_entries(step, n, swallowed) == [i \in 1..n |-> [step |-> step, swallowed |-> swallowed]]

PM_main(module) ==
    CASE module = "ingestion" ->
            PM_entries("set_context", 2, FALSE)
            \o PM_entries("setup_stages_and_formats", Len(DE_setup_stages_and_formats), FALSE)
      [] module = "transformation" ->
            PM_entries("set_context", 1, FALSE)
            \o PM_entries("transform_to_curated", 1, FALSE)
            \o PM_entries("create_aggregated_views", 1, FALSE)
      [] module = "validation" ->
            PM_entries("set_context", 1, FALSE)
            \o PM_entries("run_data_quality_checks", Len(QC_tables), FALSE)
      [] module = "shares" ->
            PM_entries("set_context", 1, FALSE)
            \o PM_entries("setup_demo_share", 1, FALSE)
      [] module = "monitoring" ->
            PM_entries("set_context", 1, FALSE)
            \o PM_entries("monitor_share_usage", 2, TRUE)
            \o PM_entries("show_share_info", 2, TRUE)

PipelineFrame ==
    <<argv, level, mode, answer, cursor, whVars, objs0, faults, config, dateVars,
      ret, files, settings, linesep, history, quality>>

\* python <module>.py
PM_start ==
    /\ pc \in {"idle", "done"}
    /\ runs < MaxModuleRuns
    /\ \E module \in PM_modules : script' = module
    /\ runs' = runs + 1
    /\ prev' = script
    /\ ip' = 0 /\ issued' = <<>>
    /\ conn' = "none" /\ opened' = 0 /\ closes' = 0
    /\ log' = {} /\ exit' = "none"
    /\ pc' = "session"
    /\ UNCHANGED PipelineFrame

\* session = get_snowpark_session(): the session is created and asked for its
\* account, database and schema; an exception at either place is re-raised
\* and ends the process.
PM_get_snowpark_session ==
    /\ script \in PM_modules /\ pc = "session"
    /\ \/ \* Session.builder...create() raises
          /\ exit' = "raised" /\ pc' = "done"
          /\ UNCHANGED <<conn, opened, ip>>
       \/ \* create() returns, a get_current_...() call raises
          /\ conn' = "open" /\ opened' = opened + 1
          /\ exit' = "raised" /\ pc' = "done"
          /\ UNCHANGED ip
       \/ /\ conn' = "open" /\ opened' = opened + 1
          /\ pc' = "run" /\ ip' = 1
          /\ UNCHANGED exit
    /\ UNCHANGED <<PipelineFrame, script, runs, prev, issued, closes, log>>

\* One entry of the module's lines between the opening of the session and
\* session.close().  No try statement encloses these lines: an exception that
\* a function lets through ends the process with a traceback.
PM_step ==
    /\ script \in PM_modules /\ pc = "run"
    /\ ip <= Len(PM_main(script))
    /\ \E ok \in BOOLEAN :
          /\ issued' = Append(issued, <<ip, ok>>)
          /\ IF ok \/ PM_main(script)[ip].swallowed
             THEN /\ ip' = ip + 1
                  /\ log' = IF ok THEN log ELSE log \cup {"warning"}
                  /\ UNCHANGED <<pc, exit>>
             ELSE /\ exit' = "raised" /\ pc' = "done"
                  /\ UNCHANGED <<ip, log>>
    /\ UNCHANGED <<PipelineFrame, script, runs, prev, conn, opened, closes>>

\* session.close()
PM_session_close(c) == IF c = "open" THEN "closed" ELSE c

\* The last line of the __main__ block.
PM_close ==
    /\ script \in PM_modules /\ pc = "run"
    /\ ip = Len(PM_main(script)) + 1
    /\ conn' = PM_session_close(conn)
    /\ closes' = closes + 1
    /\ exit' = "returned" /\ pc' = "done"
    /\ UNCHANGED <<PipelineFrame, script, runs, prev, ip, issued, opened, log>>

NextPipelines == PM_start \/ PM_get_snowpark_session \/ PM_step \/ PM_close

SpecPipelines == Init /\ [][NextPipelines]_vars

\* The process of a pipeline module has ended.
PM_ended == script \in PM_modules /\ pc = "done"

\* C23: when the process of a pipeline module ends after
\* get_snowpark_session() returned a session, that session is closed, also
\* when a step raised.
C23_SessionClosedAtEnd ==
    (PM_ended /\ ip >= 1) => (conn = "closed" /\ closes = opened)

\* What the __main__ blocks do: the session is closed when every line up to
\* session.close() has run, and is left open when an exception ended the
\* process before that line.
PM_SessionClosedOnlyOnSuccess ==
    PM_ended =>
        /\ opened <= 1 /\ closes <= opened
        /\ exit = "returned" => (opened = 1 /\ conn = "closed" /\ closes = 1)
        /\ (exit = "raised" /\ opened = 1) => (conn = "open" /\ closes = 0)

=============================================================================
